---- MODULE Spec2Model ----
(***************************************************************************)
(* Verification model of the PongPush repository: the CI pipeline status   *)
(* checkers, the workflow runner script, the deployment verifier, the git  *)
(* push retry wrapper and the photo upload service.                        *)
(*                                                                         *)
(* One run of the model is one execution of one program; `prog' says which *)
(* program is executing, and the variables of the other programs stay at   *)
(* their initial values.                                                   *)
(***************************************************************************)
EXTENDS Integers, Sequences, FiniteSets, TLC

VARIABLES
  prog,          \* the program under execution
  \* ---- check-pipeline.ts (status-file checker)
  cp_pc,         \* position in checkPipeline / waitForAllJobs
  cp_sha,        \* result of getLatestCommitSha()
  cp_skipWait,   \* --no-wait
  cp_timeout,    \* timeoutSeconds
  cp_now,        \* seconds since waitForAllJobs took startTime
  cp_elapsed,    \* `elapsed' of the latest loop iteration
  cp_fs,         \* working tree: ci-logs/<dir>/<job>.status
  cp_statuses,   \* JobStatus[] of the latest getJobStatuses call
  cp_polls,      \* number of pull-and-check rounds started
  cp_result,     \* CheckResult returned by checkPipeline
  cp_exit,       \* process exit code (-1: still running)
  \* ---- run-workflow.sh
  rw_pc,         \* position in the script
  rw_arg,        \* $1
  rw_sha,        \* HEAD
  rw_code,       \* EXIT_CODE of `bun run' (-1: the workflow has not ended)
  rw_fs,         \* ci-logs/<dir>/<file>: content, <<>> when absent
  rw_exit,       \* exit code of the script (-1: still running)
  \* ---- check-pipeline-api.ts (GitHub API checker)
  api_pc,        \* position in checkPipeline / waitForWorkflows
  api_skipWait,  \* --no-wait
  api_timeout,   \* timeoutSeconds
  api_now,       \* seconds since waitForWorkflows took startTime
  api_elapsed,   \* `elapsed' of the latest loop iteration
  api_runs,      \* `runs' of the current loop iteration, then the returned list
  api_polls,     \* number of fetchWorkflowRuns calls
  api_result,    \* CheckResult returned by checkPipeline
  api_exit,      \* process exit code (-1: still running)
  api_downloads, \* calls of downloadWorkflowLogs and fetchArtifacts made
  \* ---- verify-deployment.ts
  vd_pc,         \* position in main
  vd_expected,   \* EXPECTED_COMMIT
  vd_attempt,    \* loop variable `attempt'
  vd_checks,     \* number of checkSiteAccessible calls
  vd_found,      \* some attempt got HTTP 200 and then a page of the expected commit
  vd_exit,       \* process exit code (-1: still running)
  \* ---- GitClient.push / GitClient.fetch
  git_pc,        \* position in the retry loop
  git_impl,      \* "shell": utils/git.ts with Bun $; "spawn": with spawnGitCommand
  git_op,        \* "push" or "fetch"
  git_maxRetries,\* parameter maxRetries
  git_attempt,   \* loop variable `attempt'
  git_tries,     \* number of git commands run
  git_last,      \* outcome of the latest git command
  git_delay,     \* delay of the sleep in progress or last slept
  git_ret,       \* "none", "true", "false"
  git_waits,     \* the delays Bun.sleep was given and waited for, in order
  \* ---- UploadService.upload
  up_pc,         \* position in upload
  up_file,       \* request.file
  up_bytes,      \* the bytes file.arrayBuffer() delivers
  up_env,        \* "browser" (window.btoa), "node" (Buffer) or "none"
  up_time,       \* seconds since 1970-01-01T00:00:00Z at generateFilename
  up_read,       \* file.arrayBuffer() was called
  up_fileName,   \* processed.fileName
  up_sent,       \* params of the uploadFile calls made, in order
  up_response,   \* the UploadResponse returned
  up_validation, \* validationResult of upload
  fn_original,   \* originalFilename passed to generateFilename
  fn_clock,      \* seconds since the epoch, what new Date() reads
  fn_ticks,      \* times the clock has advanced
  fn_calls,      \* history: instant and result of every call
  app_pc,        \* position in main.ts / initApp
  app_readyState,\* document.readyState when main.ts is evaluated
  app_token,     \* window.__GITHUB_TOKEN__
  app_messageDiv,\* the page has an element with id `message'
  app_service,   \* new UploadService(config) was evaluated
  app_health,    \* result of uploadService.healthCheck()
  app_form,      \* "none", "constructed" or "threw": new UploadForm(...)
  app_errors,    \* arguments of the showError calls, in order
  app_shown,     \* innerHTML set on the message element, "none" if never
  pr_pc,         \* position in auto-pr.ts / main
  pr_env,        \* the environment variables that are set
  pr_number,     \* prNumber (0: null)
  pr_path,       \* which way main went: "", "missing_env", "existing", "created", "none", "threw"
  pr_autoMerge,  \* "none", "enabled" or "failed": enableAutoMerge
  pr_pushes,     \* invocations of LogPusher.pushLogs
  pr_exit,       \* process exit code (-1: still running)
  e2e_impl,      \* "push" (pushLogsToGit) or "copy" (copyTestArtifacts)
  e2e_pc,        \* position in e2e-local.ts / main
  e2e_step,      \* index of the command runCommand executes next
  e2e_results,   \* per command "notrun", "ok" or "failed"
  e2e_dirs,      \* of test-results and playwright-report, those that exist
  e2e_testFailed,\* let testFailed
  e2e_thrown,    \* an error is propagating out of main
  e2e_logSteps,  \* times the log step was entered
  e2e_copied,    \* directories the log step copied to ci-logs
  e2e_exit,      \* process exit code (-1: still running)
  bc_pc,         \* position in the cleanup script / main
  bc_present,    \* branches origin has
  bc_upstream,   \* another remote has a claude/ branch
  bc_ahead,      \* per branch of origin, its commits ahead of origin/main
  bc_branches,   \* const branches
  bc_infos,      \* const branchInfos
  bc_toDelete,   \* const toDelete
  bc_passed,     \* names passed to git.deleteBranch, in order
  bc_deleted,    \* branches deleteBranch removed from origin
  bc_exit,       \* process exit code (-1: still running)
  wc_impl,       \* "attribute" (data-commit-sha) or "element" (#commit-<sha>)
  wc_pc,         \* position in waitForCorrectCommit
  wc_expected,   \* expectedSha
  wc_maxRetries, \* maxRetries
  wc_i,          \* the loop variable i
  wc_loads,      \* calls of page.goto
  wc_waits,      \* calls of page.waitForTimeout
  wc_history,    \* what each attempt saw: "error", "null" or a commit
  wc_result,     \* "none", "returned" or "timeout" (the Error thrown)
  lp_impl,       \* which GitClient pushLogs works with: "shell" (utils/git.ts) or "spawn"
  lp_pc,         \* position in pushLogs
  lp_logFile,    \* options.logFile: "none", "missing" or "present"
  lp_files,      \* files pushLogs has put into ci-logs
  lp_result,     \* what the git commit command answered
  lp_committed,  \* what GitClient.commit did: "none", "true", "false", "threw"
  lp_failed,     \* the step whose error reached the catch block, or "none"
  lp_pushes,     \* calls of GitClient.push
  lp_pushed,     \* a call of GitClient.push returned
  lp_ret,        \* what pushLogs did: "none", "true", "false", "threw"
  cl_pc,         \* position in cleanupOldLogs
  cl_commit,     \* options.currentCommit
  cl_dryRun,     \* options.dryRun
  cl_before,     \* the log directory when cleanupOldLogs was called
  cl_fs,         \* the log directory now: each name is "absent", "dir" or "file"
  cl_todo,       \* directories the for loop has still to visit
  cl_failed,     \* directories whose fs.rmSync threw
  cl_deletedCount,\* deletedCount
  cl_preservedCount\* preservedCount

cpVars == <<cp_pc, cp_sha, cp_skipWait, cp_timeout, cp_now, cp_elapsed,
            cp_fs, cp_statuses, cp_polls, cp_result, cp_exit>>

rwVars == <<rw_pc, rw_arg, rw_sha, rw_code, rw_fs, rw_exit>>

apiVars == <<api_pc, api_skipWait, api_timeout, api_now, api_elapsed,
             api_runs, api_polls, api_result, api_exit, api_downloads>>

vdVars == <<vd_pc, vd_expected, vd_attempt, vd_checks, vd_found, vd_exit>>

gitVars == <<git_pc, git_impl, git_op, git_maxRetries, git_attempt, git_tries,
             git_last, git_delay, git_ret, git_waits>>

upVars == <<up_pc, up_file, up_bytes, up_env, up_time, up_read, up_fileName,
            up_sent, up_response, up_validation>>

fnVars == <<fn_original, fn_clock, fn_ticks, fn_calls>>

appVars == <<app_pc, app_readyState, app_token, app_messageDiv, app_service,
             app_health, app_form, app_errors, app_shown>>

prVars == <<pr_pc, pr_env, pr_number, pr_path, pr_autoMerge, pr_pushes,
            pr_exit>>

e2eVars == <<e2e_impl, e2e_pc, e2e_step, e2e_results, e2e_dirs,
             e2e_testFailed, e2e_thrown, e2e_logSteps, e2e_copied,
             e2e_exit>>

bcVars == <<bc_pc, bc_present, bc_upstream, bc_ahead, bc_branches, bc_infos,
            bc_toDelete, bc_passed, bc_deleted, bc_exit>>

wcVars == <<wc_impl, wc_pc, wc_expected, wc_maxRetries, wc_i, wc_loads,
            wc_waits, wc_history, wc_result>>

lpVars == <<lp_impl, lp_pc, lp_logFile, lp_files, lp_result, lp_committed,
            lp_failed, lp_pushes, lp_pushed, lp_ret>>

clVars == <<cl_pc, cl_commit, cl_dryRun, cl_before, cl_fs, cl_todo,
            cl_failed, cl_deletedCount, cl_preservedCount>>

vars == <<prog, cpVars, rwVars, apiVars, vdVars, gitVars, upVars, fnVars,
          appVars, prVars, e2eVars, bcVars, wcVars, lpVars, clVars>>

----------------------------------------------------------------------------
(* Strings are sequences of one-character strings.                         *)

S_success == <<"s","u","c","c","e","s","s">>
S_failed  == <<"f","a","i","l","e","d">>

IsSpace(c) == c \in {" ", "\n", "\t", "\r"}

RECURSIVE TrimStart(_)
TrimStart(s) ==
  IF s = <<>> THEN s
  ELSE IF IsSpace(Head(s)) THEN TrimStart(Tail(s)) ELSE s

RECURSIVE TrimEnd(_)
TrimEnd(s) ==
  IF s = <<>> THEN s
  ELSE IF IsSpace(s[Len(s)]) THEN TrimEnd(SubSeq(s, 1, Len(s) - 1)) ELSE s

\* String.prototype.trim
Trim(s) == TrimEnd(TrimStart(s))

\* String.prototype.substring(0, n)
Substring0(s, n) == SubSeq(s, 1, IF n < Len(s) THEN n ELSE Len(s))

----------------------------------------------------------------------------
(* Bounds                                                                  *)

MaxTimeout == 20        \* largest --timeout value explored (seconds)
MaxPullSeconds == 7     \* longest duration of one `git pull' explored
MaxRuns == 2            \* most workflow runs the API lists for one commit
MaxFetchSeconds == 3    \* longest duration of one API request explored
MaxRetriesArg == 5      \* largest maxRetries a caller passes

----------------------------------------------------------------------------
(* check-pipeline.ts                                                       *)

EXPECTED_WORKFLOWS == <<"build", "e2e-local", "auto-pr">>
Jobs == {EXPECTED_WORKFLOWS[i] : i \in 1..Len(EXPECTED_WORKFLOWS)}

PollIntervalSeconds == 10

Shas == { <<"a","1","b","2","c","3","d","4","e","5">> }

NoFile == [exists |-> FALSE, readable |-> FALSE, content |-> <<>>]
UnreadableFile == [exists |-> TRUE, readable |-> FALSE, content |-> <<>>]
FileWith(c) == [exists |-> TRUE, readable |-> TRUE, content |-> c]

\* contents a status file is seen with; run-workflow.sh writes them with echo
StatusContents ==
  { S_success \o <<"\n">>, S_failed \o <<"\n">>, S_success \o <<" ", "x">> }

FileStates == {NoFile, UnreadableFile} \cup {FileWith(c) : c \in StatusContents}

ShortSha(sha) == Substring0(sha, 7)

\* JobStatusOf comparing the raw content, without trim()
JobStatusOf_NoTrim(fs, sha, job) ==
  LET f == fs[ShortSha(sha)][job]
  IN IF ~f.exists THEN "pending"
     ELSE IF ~f.readable THEN "pending"
     ELSE IF f.content = S_success THEN "success" ELSE "failed"

\* getJobStatuses: the status of one expected workflow
JobStatusOf(fs, sha, job) ==
  LET logDir == ShortSha(sha)
      f == fs[logDir][job]
  IN IF ~f.exists THEN "pending"
     ELSE IF ~f.readable THEN "pending"
     ELSE IF Trim(f.content) = S_success THEN "success" ELSE "failed"

getJobStatuses(fs, sha) == [j \in Jobs |-> JobStatusOf(fs, sha, j)]

\* checkPipeline testing the pending jobs before the failed ones
Conclude_PendingFirst(statuses) ==
  LET failed  == {j \in Jobs : statuses[j] = "failed"}
      pending == {j \in Jobs : statuses[j] = "pending"}
      allComplete == pending = {}
      allSuccess == allComplete /\ failed = {}
  IN IF allSuccess THEN [success |-> TRUE, conclusion |-> "success"]
     ELSE IF pending # {} THEN [success |-> FALSE, conclusion |-> "pending"]
     ELSE IF failed # {} THEN [success |-> FALSE, conclusion |-> "failure"]
     ELSE [success |-> FALSE, conclusion |-> "unknown"]

\* the verdict of checkPipeline on the job statuses waitForAllJobs returned
Conclude(statuses) ==
  LET failed  == {j \in Jobs : statuses[j] = "failed"}
      pending == {j \in Jobs : statuses[j] = "pending"}
      allComplete == pending = {}
      allSuccess == allComplete /\ failed = {}
  IN IF allSuccess THEN [success |-> TRUE, conclusion |-> "success"]
     ELSE IF failed # {} THEN [success |-> FALSE, conclusion |-> "failure"]
     ELSE IF pending # {} THEN [success |-> FALSE, conclusion |-> "pending"]
     ELSE [success |-> FALSE, conclusion |-> "unknown"]

NoResult == [success |-> FALSE, conclusion |-> "none"]

\* directories of ci-logs the model tracks for a commit
LogDirs(sha) == {ShortSha(sha), sha}

\* the working trees the model starts from and a pull can produce: the
\* directory of the short sha holds any status files, the directory named
\* by the full sha is empty or holds three `success' files
FullDirStates == { [j \in Jobs |-> NoFile], [j \in Jobs |-> FileWith(S_success \o <<"\n">>)] }
Trees(sha) ==
  { [d \in LogDirs(sha) |-> IF d = ShortSha(sha) THEN short ELSE full] :
      short \in [Jobs -> FileStates], full \in FullDirStates }

\* a pull brings in at most one new or changed status file, or flips the
\* other directory
AfterPull(fs, sha) ==
  {fs}
  \cup { [fs EXCEPT ![ShortSha(sha)][j] = f] : j \in Jobs, f \in FileStates }
  \cup { [fs EXCEPT ![sha] = full] : full \in FullDirStates }

CP_Idle ==
  /\ cp_pc = "idle" /\ cp_sha = <<>> /\ cp_skipWait = FALSE /\ cp_timeout = 0
  /\ cp_now = 0 /\ cp_elapsed = 0 /\ cp_fs = <<>>
  /\ cp_statuses = <<>> /\ cp_polls = 0 /\ cp_result = NoResult /\ cp_exit = -1

CP_Init ==
  /\ cp_pc = "start"
  /\ cp_sha \in Shas
  /\ cp_skipWait \in BOOLEAN
  /\ cp_timeout \in {10, MaxTimeout}
  /\ cp_now = 0 /\ cp_elapsed = 0
  /\ cp_fs \in Trees(cp_sha)
  /\ cp_statuses = [j \in Jobs |-> "pending"]
  /\ cp_polls = 0 /\ cp_result = NoResult /\ cp_exit = -1

\* checkPipeline up to the call of waitForAllJobs: getCurrentBranch and
\* getLatestCommitSha succeed, or one of them throws
CP_Start ==
  /\ prog = "check-pipeline" /\ cp_pc = "start"
  /\ \E ok \in BOOLEAN : cp_pc' = IF ok THEN "poll" ELSE "threw"
  /\ UNCHANGED <<prog, clVars, lpVars, wcVars, bcVars, e2eVars, prVars, appVars, fnVars, rwVars, apiVars, vdVars, gitVars, upVars, cp_sha, cp_skipWait, cp_timeout, cp_now, cp_elapsed,
                 cp_fs, cp_statuses, cp_polls, cp_result, cp_exit>>

\* AfterCheck with the timeout test written `>' instead of `>='
AfterCheck_StrictTimeout(statuses, skipWait, elapsed, timeoutSeconds) ==
  LET pending == {j \in Jobs : statuses[j] = "pending"}
  IN IF pending = {} THEN "waited"
     ELSE IF skipWait THEN "waited"
     ELSE IF elapsed > timeoutSeconds THEN "waited"
     ELSE "sleep"

\* where one iteration of the loop of waitForAllJobs leaves
AfterCheck(statuses, skipWait, elapsed, timeoutSeconds) ==
  LET pending == {j \in Jobs : statuses[j] = "pending"}
  IN IF pending = {} THEN "waited"
     ELSE IF skipWait THEN "waited"
     ELSE IF elapsed >= timeoutSeconds THEN "waited"
     ELSE "sleep"

\* one iteration of the loop of waitForAllJobs: take elapsed, pull, check
CP_Poll ==
  /\ prog = "check-pipeline" /\ cp_pc = "poll"
  /\ \E d \in {0, MaxPullSeconds}, pulled \in BOOLEAN :
       \E fs \in (IF pulled THEN AfterPull(cp_fs, cp_sha) ELSE {cp_fs}) :
         LET statuses == getJobStatuses(fs, cp_sha) IN
           /\ cp_elapsed' = cp_now
           /\ cp_now' = cp_now + d
           /\ cp_fs' = fs
           /\ cp_statuses' = statuses
           /\ cp_polls' = cp_polls + 1
           /\ cp_pc' = AfterCheck(statuses, cp_skipWait, cp_now, cp_timeout)
  /\ UNCHANGED <<prog, clVars, lpVars, wcVars, bcVars, e2eVars, prVars, appVars, fnVars, rwVars, apiVars, vdVars, gitVars, upVars, cp_sha, cp_skipWait, cp_timeout, cp_result, cp_exit>>

\* await Bun.sleep(pollInterval)
CP_Sleep ==
  /\ prog = "check-pipeline" /\ cp_pc = "sleep"
  /\ cp_now' = cp_now + PollIntervalSeconds
  /\ cp_pc' = "poll"
  /\ UNCHANGED <<prog, clVars, lpVars, wcVars, bcVars, e2eVars, prVars, appVars, fnVars, rwVars, apiVars, vdVars, gitVars, upVars, cp_sha, cp_skipWait, cp_timeout, cp_elapsed, cp_fs,
                 cp_statuses, cp_polls, cp_result, cp_exit>>

\* checkPipeline after waitForAllJobs returned, and the .then handler
CP_Report ==
  /\ prog = "check-pipeline" /\ cp_pc = "waited"
  /\ cp_result' = Conclude(cp_statuses)
  /\ cp_exit' = IF cp_result'.success THEN 0 ELSE 1
  /\ cp_pc' = "exited"
  /\ UNCHANGED <<prog, clVars, lpVars, wcVars, bcVars, e2eVars, prVars, appVars, fnVars, rwVars, apiVars, vdVars, gitVars, upVars, cp_sha, cp_skipWait, cp_timeout, cp_now, cp_elapsed,
                 cp_fs, cp_statuses, cp_polls>>

\* the .catch handler of the top level call
CP_Catch ==
  /\ prog = "check-pipeline" /\ cp_pc = "threw"
  /\ cp_exit' = 1
  /\ cp_pc' = "exited"
  /\ UNCHANGED <<prog, clVars, lpVars, wcVars, bcVars, e2eVars, prVars, appVars, fnVars, rwVars, apiVars, vdVars, gitVars, upVars, cp_sha, cp_skipWait, cp_timeout, cp_now, cp_elapsed,
                 cp_fs, cp_statuses, cp_polls, cp_result>>

CP_Next == CP_Start \/ CP_Poll \/ CP_Sleep \/ CP_Report \/ CP_Catch

\* every expected job has a status file in ci-logs/<7 characters of the
\* sha>/ whose trimmed content is `success'
AllStatusFilesSuccess ==
  \A j \in Jobs :
    LET f == cp_fs[SubSeq(cp_sha, 1, 7)][j]
    IN f.exists /\ f.readable /\ Trim(f.content) = S_success

\* C1: the status-file checker exits with code 0 and conclusion `success'
\* exactly when, at the end of the wait, build, e2e-local and auto-pr each
\* have a status file under ci-logs/<short sha>/ whose trimmed content is
\* `success'; in every other case success is false and the exit code is 1.
C1_SuccessIffAllStatusFiles ==
  cp_pc = "exited" =>
    /\ cp_exit \in {0, 1}
    /\ cp_exit = 0 <=> (cp_polls > 0 /\ AllStatusFilesSuccess)
    /\ cp_exit = 0 <=> cp_result.success
    /\ cp_result.success <=> cp_result.conclusion = "success"

\* C1 witness: the checker waited through a sleep and then reported success
C1_Witness ==
  /\ cp_pc = "exited" /\ cp_exit = 0 /\ cp_polls >= 2
  /\ \E j \in Jobs : cp_fs[ShortSha(cp_sha)][j].content # S_success

\* jobs of the last poll with the given status
JobsWith(status) == {j \in Jobs : cp_statuses[j] = status}

\* C18: the status-file checker reports `success' when no job is pending or
\* failed, otherwise `failure' when at least one job failed, even if others
\* are still pending, otherwise `pending'; it never reports `unknown'.
C18_ConclusionPrecedence ==
  (cp_pc = "exited" /\ cp_result # NoResult) =>
    /\ cp_result.conclusion =
         (IF JobsWith("pending") = {} /\ JobsWith("failed") = {} THEN "success"
          ELSE IF JobsWith("failed") # {} THEN "failure"
          ELSE "pending")
    /\ cp_result.conclusion # "unknown"

\* C18 witness: `failure' was reported while another job was still pending
C18_Witness ==
  /\ cp_pc = "exited" /\ cp_result.conclusion = "failure"
  /\ JobsWith("pending") # {} /\ JobsWith("failed") # {}

\* C3 (safety part): what a finished check decided
C3_CheckDecision ==
  /\ cp_skipWait => cp_polls <= 1
  /\ (cp_pc = "waited" /\ cp_skipWait) => cp_polls = 1
  /\ cp_pc = "sleep" =>
       /\ ~cp_skipWait
       /\ \E j \in Jobs : cp_statuses[j] = "pending"
       /\ cp_elapsed < cp_timeout
  /\ cp_pc = "waited" =>
       \/ cp_skipWait
       \/ \A j \in Jobs : cp_statuses[j] # "pending"
       \/ cp_elapsed >= cp_timeout

\* C3: waitForAllJobs always terminates; with skipWait it returns after
\* exactly one pull-and-check; otherwise it returns at the first check with
\* no pending job or with elapsed >= timeoutSeconds, and after a check at
\* which the timeout had elapsed no further pull or check is started.
C3_WaitTerminates ==
  /\ []C3_CheckDecision
  /\ [][(cp_polls > 0 /\ cp_elapsed >= cp_timeout) => cp_polls' = cp_polls]_vars
  /\ (prog = "check-pipeline" /\ cp_pc = "poll") ~> (cp_pc = "waited")

\* C3 witness: the wait ended by timeout after several rounds, jobs pending
C3_Witness ==
  /\ cp_pc = "waited" /\ ~cp_skipWait /\ cp_polls >= 3
  /\ cp_elapsed >= cp_timeout
  /\ \E j \in Jobs : cp_statuses[j] = "pending"

----------------------------------------------------------------------------
(* run-workflow.sh                                                         *)

S_ts == <<".", "t", "s">>
S_autopr == <<"a","u","t","o","-","p","r">>
S_build  == <<"b","u","i","l","d">>
S_e2e    == <<"e","2","e","-","l","o","c","a","l">>

\* the arguments the script is started with; <<>> is a missing argument
WorkflowArgs == { <<>>, S_autopr \o S_ts, S_build \o S_ts, S_e2e \o S_ts, S_build }

ExitCodes == 0..255

EndsWith(s, suffix) ==
  /\ Len(s) >= Len(suffix)
  /\ SubSeq(s, Len(s) - Len(suffix) + 1, Len(s)) = suffix

RECURSIVE AfterLastSlash(_)
AfterLastSlash(s) ==
  IF \E i \in 1..Len(s) : s[i] = "/"
  THEN AfterLastSlash(Tail(s))
  ELSE s

\* basename "$1" .ts
Basename(path, suffix) ==
  LET b == AfterLastSlash(path)
  IN IF EndsWith(b, suffix) /\ b # suffix
     THEN SubSeq(b, 1, Len(b) - Len(suffix))
     ELSE b

\* StatusWord which treats only exit code 1 as a failure
StatusWord_OnlyOne(exitCode) ==
  IF exitCode # 1 THEN S_success ELSE S_failed

\* the word the script echoes into the status file
StatusWord(exitCode) ==
  IF exitCode = 0 THEN S_success ELSE S_failed

\* echo "word" > file
Echo(word) == word \o <<"\n">>

S_status == <<".","s","t","a","t","u","s">>

RW_Files(arg) == {Basename(arg, S_ts) \o S_status}

RW_Idle ==
  /\ rw_pc = "idle" /\ rw_arg = <<>> /\ rw_sha = <<>> /\ rw_code = -1
  /\ rw_fs = <<>> /\ rw_exit = -1

RW_Init ==
  /\ rw_pc = "start"
  /\ rw_arg \in WorkflowArgs
  /\ rw_sha \in Shas
  /\ rw_code = -1
  /\ rw_fs = [d \in {ShortSha(rw_sha)} |-> [f \in RW_Files(rw_arg) |-> <<>>]]
  /\ rw_exit = -1

\* the script up to the start of the workflow: the argument test,
\* git rev-parse and mkdir -p under set -e
RW_Begin ==
  /\ prog = "run-workflow" /\ rw_pc = "start"
  /\ IF rw_arg = <<>>
     THEN rw_pc' = "exited" /\ rw_exit' = 1
     ELSE \E prepared \in BOOLEAN :
            IF prepared
            THEN rw_pc' = "running" /\ rw_exit' = rw_exit
            ELSE rw_pc' = "exited" /\ rw_exit' \in {1, 128}
  /\ UNCHANGED <<prog, clVars, lpVars, wcVars, bcVars, e2eVars, prVars, appVars, fnVars, cpVars, apiVars, vdVars, gitVars, upVars, rw_arg, rw_sha, rw_code, rw_fs>>

\* bun run "$WORKFLOW_FILE" ends; EXIT_CODE=$?
RW_WorkflowEnds ==
  /\ prog = "run-workflow" /\ rw_pc = "running"
  /\ rw_code' \in ExitCodes
  /\ rw_pc' = "ended"
  /\ UNCHANGED <<prog, clVars, lpVars, wcVars, bcVars, e2eVars, prVars, appVars, fnVars, cpVars, apiVars, vdVars, gitVars, upVars, rw_arg, rw_sha, rw_fs, rw_exit>>

\* wait; write the status semaphore file; exit $EXIT_CODE
RW_Finish ==
  /\ prog = "run-workflow" /\ rw_pc = "ended"
  /\ LET name == Basename(rw_arg, S_ts)
         logDir == ShortSha(rw_sha)
     IN rw_fs' = [rw_fs EXCEPT ![logDir][name \o S_status] = Echo(StatusWord(rw_code))]
  /\ rw_exit' = rw_code
  /\ rw_pc' = "exited"
  /\ UNCHANGED <<prog, clVars, lpVars, wcVars, bcVars, e2eVars, prVars, appVars, fnVars, cpVars, apiVars, vdVars, gitVars, upVars, rw_arg, rw_sha, rw_code>>

RW_Next == RW_Begin \/ RW_WorkflowEnds \/ RW_Finish

\* the status file the claim names for an argument <name>.ts
RW_ClaimedStatusFile ==
  rw_fs[SubSeq(rw_sha, 1, 7)][SubSeq(rw_arg, 1, Len(rw_arg) - 3) \o S_status]

----------------------------------------------------------------------------
(* check-pipeline-api.ts                                                   *)

\* WorkflowRun as the GitHub API lists it: a run that is not completed has
\* no conclusion yet
Run(status, conclusion) == [status |-> status, conclusion |-> conclusion]

OpenStatuses == {"in_progress", "queued", "waiting", "requested"}
Conclusions == {"success", "failure", "cancelled", "timed_out"}

RunValues ==
  {Run(st, "null") : st \in OpenStatuses} \cup {Run("completed", c) : c \in Conclusions}

\* data.workflow_runs || []
RunLists == UNION {[1..n -> RunValues] : n \in 0..MaxRuns}

Filter(runs, Test(_)) == {i \in 1..Len(runs) : Test(runs[i])}

\* waitForWorkflows.inProgress
StillRunning(r) == r.status \in {"in_progress", "queued", "waiting"}

\* waitForWorkflows returning the empty list at once
AfterFetch_GiveUpAtOnce(runs, skipWait, elapsed, timeoutSeconds) ==
  IF Len(runs) = 0
  THEN "waited"
  ELSE IF Filter(runs, StillRunning) = {} THEN "waited"
  ELSE IF skipWait THEN "waited"
  ELSE IF elapsed >= timeoutSeconds THEN "waited"
  ELSE "sleep"

\* where one iteration of the loop of waitForWorkflows leaves
AfterFetch(runs, skipWait, elapsed, timeoutSeconds) ==
  IF Len(runs) = 0
  THEN IF skipWait \/ elapsed >= timeoutSeconds THEN "waited" ELSE "sleep"
  ELSE IF Filter(runs, StillRunning) = {} THEN "waited"
  ELSE IF skipWait THEN "waited"
  ELSE IF elapsed >= timeoutSeconds THEN "waited"
  ELSE "sleep"

IsFailure(r) == r.conclusion = "failure"
IsCancelled(r) == r.conclusion = "cancelled"
NotCompleted(r) == r.status # "completed"

ApiResult(success, conclusion, downloaded) ==
  [success |-> success, conclusion |-> conclusion, artifactDownloaded |-> downloaded]

ApiNoResult == ApiResult(FALSE, "none", FALSE)

\* checkPipeline testing the cancelled runs before the failed ones
Analyze_CancelledFirst(runs, downloaded) ==
  LET failed == Filter(runs, IsFailure)
      cancelled == Filter(runs, IsCancelled)
      inProgress == Filter(runs, NotCompleted)
      allComplete == inProgress = {}
      allSuccess == allComplete /\ failed = {} /\ cancelled = {}
  IN IF Len(runs) = 0 THEN ApiResult(FALSE, "no_runs", FALSE)
     ELSE IF allSuccess THEN ApiResult(TRUE, "success", FALSE)
     ELSE IF cancelled # {} THEN ApiResult(FALSE, "cancelled", FALSE)
     ELSE IF failed # {} THEN ApiResult(FALSE, "failure", downloaded)
     ELSE IF inProgress # {} THEN ApiResult(FALSE, "pending", FALSE)
     ELSE ApiResult(FALSE, "unknown", FALSE)

\* checkPipeline after waitForWorkflows returned `runs'; `downloaded' says
\* whether some downloadArtifact call of the failure branch returned true
Analyze(runs, downloaded) ==
  LET failed == Filter(runs, IsFailure)
      cancelled == Filter(runs, IsCancelled)
      inProgress == Filter(runs, NotCompleted)
      allComplete == inProgress = {}
      allSuccess == allComplete /\ failed = {} /\ cancelled = {}
  IN IF Len(runs) = 0 THEN ApiResult(FALSE, "no_runs", FALSE)
     ELSE IF allSuccess THEN ApiResult(TRUE, "success", FALSE)
     ELSE IF failed # {} THEN ApiResult(FALSE, "failure", downloaded)
     ELSE IF cancelled # {} THEN ApiResult(FALSE, "cancelled", FALSE)
     ELSE IF inProgress # {} THEN ApiResult(FALSE, "pending", FALSE)
     ELSE ApiResult(FALSE, "unknown", FALSE)

\* the failed runs checkPipeline downloads logs and artifacts for
DownloadCalls(runs) ==
  IF Len(runs) = 0 THEN 0
  ELSE IF Analyze(runs, FALSE).conclusion = "failure"
       THEN Cardinality(Filter(runs, IsFailure))
       ELSE 0

API_Idle ==
  /\ api_pc = "idle" /\ api_skipWait = FALSE /\ api_timeout = 0 /\ api_now = 0
  /\ api_elapsed = 0 /\ api_runs = <<>> /\ api_polls = 0
  /\ api_result = ApiNoResult /\ api_exit = -1 /\ api_downloads = 0

API_Init ==
  /\ api_pc = "start"
  /\ api_skipWait \in BOOLEAN
  /\ api_timeout \in {10, MaxTimeout}
  /\ api_now = 0 /\ api_elapsed = 0 /\ api_runs = <<>> /\ api_polls = 0
  /\ api_result = ApiNoResult /\ api_exit = -1 /\ api_downloads = 0

\* checkPipeline up to the call of waitForWorkflows: parseRepoInfo,
\* getCurrentBranch and getLatestCommitSha succeed, or one of them throws
API_Start ==
  /\ prog = "check-pipeline-api" /\ api_pc = "start"
  /\ \E ok \in BOOLEAN : api_pc' = IF ok THEN "poll" ELSE "threw"
  /\ UNCHANGED <<prog, clVars, lpVars, wcVars, bcVars, e2eVars, prVars, appVars, fnVars, cpVars, rwVars, vdVars, gitVars, upVars, api_skipWait, api_timeout, api_now,
                 api_elapsed, api_runs, api_polls, api_result, api_exit,
                 api_downloads>>

\* one iteration of the loop of waitForWorkflows: take elapsed, fetch the
\* runs of the commit (the request may fail and throw), decide
API_Poll ==
  /\ prog = "check-pipeline-api" /\ api_pc = "poll"
  /\ api_elapsed' = api_now
  /\ api_polls' = api_polls + 1
  /\ \E d \in {0, MaxFetchSeconds} : api_now' = api_now + d
  /\ \/ \E runs \in RunLists :
          /\ api_runs' = runs
          /\ api_pc' = AfterFetch(runs, api_skipWait, api_now, api_timeout)
     \/ api_runs' = <<>> /\ api_pc' = "threw"
  /\ UNCHANGED <<prog, clVars, lpVars, wcVars, bcVars, e2eVars, prVars, appVars, fnVars, cpVars, rwVars, vdVars, gitVars, upVars, api_skipWait, api_timeout, api_result, api_exit,
                 api_downloads>>

\* await Bun.sleep(pollInterval); `runs' is local to the iteration
API_Sleep ==
  /\ prog = "check-pipeline-api" /\ api_pc = "sleep"
  /\ api_now' = api_now + PollIntervalSeconds
  /\ api_runs' = <<>>
  /\ api_pc' = "poll"
  /\ UNCHANGED <<prog, clVars, lpVars, wcVars, bcVars, e2eVars, prVars, appVars, fnVars, cpVars, rwVars, vdVars, gitVars, upVars, api_skipWait, api_timeout, api_elapsed,
                 api_polls, api_result, api_exit, api_downloads>>

\* checkPipeline after waitForWorkflows returned, and the .then handler
API_Report ==
  /\ prog = "check-pipeline-api" /\ api_pc = "waited"
  /\ \E downloaded \in BOOLEAN : api_result' = Analyze(api_runs, downloaded)
  /\ api_exit' = IF api_result'.success THEN 0 ELSE 1
  /\ api_downloads' = DownloadCalls(api_runs)
  /\ api_pc' = "exited"
  /\ UNCHANGED <<prog, clVars, lpVars, wcVars, bcVars, e2eVars, prVars, appVars, fnVars, cpVars, rwVars, vdVars, gitVars, upVars, api_skipWait, api_timeout, api_now,
                 api_elapsed, api_runs, api_polls>>

\* the catch block of checkPipeline and the .catch handler
API_Catch ==
  /\ prog = "check-pipeline-api" /\ api_pc = "threw"
  /\ api_exit' = 1
  /\ api_pc' = "exited"
  /\ UNCHANGED <<prog, clVars, lpVars, wcVars, bcVars, e2eVars, prVars, appVars, fnVars, cpVars, rwVars, vdVars, gitVars, upVars, api_skipWait, api_timeout, api_now,
                 api_elapsed, api_runs, api_polls, api_result, api_downloads>>

API_Next == API_Start \/ API_Poll \/ API_Sleep \/ API_Report \/ API_Catch

\* C4: without --no-wait and before the timeout, waitForWorkflows returns a
\* non-empty run list only when every run in it has status `completed'.
C4_ReturnsOnlyCompletedRuns ==
  (api_pc = "waited" /\ ~api_skipWait /\ api_elapsed < api_timeout /\ Len(api_runs) > 0)
    => \A i \in 1..Len(api_runs) : api_runs[i].status = "completed"

\* C5: the API checker reports success (conclusion `success', exit code 0)
\* only if every run found for the commit is completed with conclusion
\* `success'.
C5_SuccessOnlyIfAllRunsSucceeded ==
  (api_pc = "exited" /\ (api_result.success \/ api_result.conclusion = "success" \/ api_exit = 0))
    => \A i \in 1..Len(api_runs) :
         api_runs[i].status = "completed" /\ api_runs[i].conclusion = "success"

\* some run of the list the report was made from has the given conclusion
SomeRunConcluded(c) == \E i \in 1..Len(api_runs) : api_runs[i].conclusion = c
SomeRunNotCompleted == \E i \in 1..Len(api_runs) : api_runs[i].status # "completed"

\* C19: when the API checker does not report success for a non-empty run
\* list, the conclusion is `failure' if any run concluded `failure',
\* otherwise `cancelled' if any run was cancelled, otherwise `pending' (some
\* run is then not completed); `unknown' is never reported, and
\* artifactDownloaded is true only with conclusion `failure'.
C19_Classification ==
  (api_pc = "exited" /\ api_result # ApiNoResult) =>
    /\ (Len(api_runs) > 0 /\ ~api_result.success) =>
         /\ api_result.conclusion =
              (IF SomeRunConcluded("failure") THEN "failure"
               ELSE IF SomeRunConcluded("cancelled") THEN "cancelled"
               ELSE "pending")
         /\ api_result.conclusion = "pending" => SomeRunNotCompleted
    /\ api_result.conclusion # "unknown"
    /\ api_result.artifactDownloaded => api_result.conclusion = "failure"

\* C19 witness: `failure' with a downloaded artifact although another run
\* of the list was cancelled
C19_Witness ==
  /\ api_pc = "exited" /\ api_result.conclusion = "failure"
  /\ api_result.artifactDownloaded
  /\ SomeRunConcluded("cancelled") /\ SomeRunConcluded("failure")

\* C20: while the API lists no run for the commit, waitForWorkflows gives up
\* only with --no-wait or once the timeout has elapsed, and sleeps for
\* another poll otherwise; when it gave up with no run, checkPipeline
\* returns `no_runs' with success false, the exit code is 1, and no log or
\* artifact download is made.
C20_NoRuns ==
  /\ (api_pc = "waited" /\ Len(api_runs) = 0)
       => (api_skipWait \/ api_elapsed >= api_timeout)
  /\ (api_pc = "sleep" /\ Len(api_runs) = 0)
       => (~api_skipWait /\ api_elapsed < api_timeout)
  /\ (api_pc = "exited" /\ api_result # ApiNoResult /\ Len(api_runs) = 0)
       => /\ api_result.conclusion = "no_runs" /\ ~api_result.success
          /\ api_exit = 1
          /\ api_downloads = 0 /\ ~api_result.artifactDownloaded

\* C20 witness: the checker polled, slept and polled again without a run,
\* then reported `no_runs' after the timeout
C20_Witness ==
  /\ api_pc = "exited" /\ api_result.conclusion = "no_runs"
  /\ ~api_skipWait /\ api_polls >= 2 /\ api_elapsed >= api_timeout

----------------------------------------------------------------------------
(* verify-deployment.ts                                                    *)

MAX_ATTEMPTS == 30

\* String.prototype.includes
Includes(s, sub) ==
  \E i \in 1..(Len(s) + 1) :
    /\ i + Len(sub) - 1 <= Len(s)
    /\ SubSeq(s, i, i + Len(sub) - 1) = sub

\* commits the site can have deployed, and values of GITHUB_SHA
CommitIds == { <<"a","1">>, <<"a","1","b">>, <<"c","2">> }

\* `id="commit-${EXPECTED_COMMIT}"`
CommitMarker(commit) ==
  <<"i","d","=","\"","c","o","m","m","i","t","-">> \o commit \o <<"\"">>

\* the deployed page of a commit
PageOf(commit) ==
  <<"<","p"," ">> \o <<"i","d","=","\"","c","o","m","m","i","t","-">> \o commit
    \o <<"\"",">">>

\* what the second fetch can deliver: a page without a commit element, the
\* page of some commit, or a failed request
Fetched(ok, commit) == [ok |-> ok, commit |-> commit]
PageKinds == {Fetched(FALSE, <<>>)} \cup {Fetched(TRUE, c) : c \in CommitIds \cup {<<>>}}
PageText(kind) == IF kind.commit = <<>> THEN <<"<","p",">">> ELSE PageOf(kind.commit)

HttpCodes == {0, 200, 404}

\* checkCommitDeployed
checkCommitDeployed(kind, expected) ==
  IF ~kind.ok THEN FALSE
  ELSE Includes(PageText(kind), CommitMarker(expected))

\* the loop test of main with one attempt too few
MoreAttempts_OffByOne(attempt) == attempt < MAX_ATTEMPTS

\* the loop test of main
MoreAttempts(attempt) == attempt <= MAX_ATTEMPTS

VD_Idle ==
  /\ vd_pc = "idle" /\ vd_expected = <<>> /\ vd_attempt = 0 /\ vd_checks = 0
  /\ vd_found = FALSE /\ vd_exit = -1

VD_Init ==
  /\ vd_pc = "site"
  /\ vd_expected \in { <<"a","1">>, <<"c","2">> }
  /\ vd_attempt = 1 /\ vd_checks = 0 /\ vd_found = FALSE /\ vd_exit = -1

\* one attempt up to the HTTP status test
VD_CheckSite ==
  /\ prog = "verify-deployment" /\ vd_pc = "site"
  /\ MoreAttempts(vd_attempt)
  /\ vd_checks' = vd_checks + 1
  /\ \E httpCode \in HttpCodes :
       vd_pc' = IF httpCode # 200 THEN "sleep" ELSE "commit"
  /\ UNCHANGED <<prog, clVars, lpVars, wcVars, bcVars, e2eVars, prVars, appVars, fnVars, cpVars, rwVars, apiVars, gitVars, upVars, vd_expected, vd_attempt, vd_found, vd_exit>>

\* the attempt after HTTP 200: fetch the page and look for the commit id
VD_CheckCommit ==
  /\ prog = "verify-deployment" /\ vd_pc = "commit"
  /\ \E kind \in PageKinds :
       /\ vd_found' = (vd_found \/ (kind.ok /\ kind.commit = vd_expected))
       /\ IF checkCommitDeployed(kind, vd_expected)
          THEN vd_pc' = "done" /\ vd_exit' = 0
          ELSE vd_pc' = "sleep" /\ vd_exit' = vd_exit
  /\ UNCHANGED <<prog, clVars, lpVars, wcVars, bcVars, e2eVars, prVars, appVars, fnVars, cpVars, rwVars, apiVars, gitVars, upVars, vd_expected, vd_attempt, vd_checks>>

\* await sleep(RETRY_DELAY), attempt++ and the loop test; after the loop
\* the timeout message and process.exit(1)
VD_Sleep ==
  /\ prog = "verify-deployment" /\ vd_pc = "sleep"
  /\ vd_attempt' = vd_attempt + 1
  /\ IF MoreAttempts(vd_attempt + 1)
     THEN vd_pc' = "site" /\ vd_exit' = vd_exit
     ELSE vd_pc' = "done" /\ vd_exit' = 1
  /\ UNCHANGED <<prog, clVars, lpVars, wcVars, bcVars, e2eVars, prVars, appVars, fnVars, cpVars, rwVars, apiVars, gitVars, upVars, vd_expected, vd_checks, vd_found>>

VD_Next == VD_CheckSite \/ VD_CheckCommit \/ VD_Sleep

\* C6 (safety part): attempts and outcome of verify-deployment
C6_Outcome ==
  /\ vd_checks <= 30
  /\ vd_pc = "done" =>
       /\ vd_exit \in {0, 1}
       /\ vd_exit = 0 <=> vd_found
       /\ vd_exit = 1 => vd_checks = 30
  /\ vd_pc # "done" => (vd_exit = -1 /\ ~vd_found)

\* C6: verify-deployment makes at most 30 attempts, ends successfully
\* exactly when some attempt got HTTP 200 and a page containing
\* id="commit-<GITHUB_SHA>", otherwise exits with code 1 after the 30th
\* attempt; it always terminates.
C6_VerifyTerminates ==
  /\ []C6_Outcome
  /\ (prog = "verify-deployment") ~> (vd_pc = "done")

\* C6 witness: the commit was found on the last attempt
C6_Witness ==
  /\ prog = "verify-deployment" /\ vd_pc = "done" /\ vd_exit = 0
  /\ vd_checks = 30 /\ vd_attempt = 30

----------------------------------------------------------------------------
(* GitClient.push and GitClient.fetch, in utils/git.ts ("shell") and in    *)
(* its rewrite on spawnGitCommand ("spawn")                                *)

DefaultMaxRetries == 4

S_403 == <<"4","0","3">>
S_Connection == <<"C","o","n","n","e","c","t","i","o","n">>
S_timeout == <<"t","i","m","e","o","u","t">>
S_reset == <<"r","e","s","e","t">>

\* error texts of a failed git command
GitErrors ==
  { <<"H","T","T","P"," ">> \o S_403,
    S_Connection \o <<" ","r","e","f","u","s","e","d">>,
    <<"c","o","n","n","e","c","t"," ">> \o S_timeout,
    <<"r","e","s","e","t"," ","b","y"," ","p","e","e","r">>,
    <<"r","e","j","e","c","t","e","d">>,
    S_Connection \o <<" ">> \o S_403 }

\* outcome of one git command: exit code 0, a failure with its error text,
\* or (spawn only) an exception of Bun.spawn
Outcome(kind, text) == [kind |-> kind, text |-> text]
NoOutcome == Outcome("none", <<>>)
GitOutcomes(impl) ==
  {Outcome("ok", <<>>)} \cup {Outcome("fail", e) : e \in GitErrors}
  \cup (IF impl = "spawn" THEN {Outcome("exception", <<>>)} ELSE {})

\* const delays = [2000, 4000, 8000, 16000]; delays[attempt], -1 for undefined
delays == <<2000, 4000, 8000, 16000>>
DelayAt(attempt) == IF attempt + 1 <= Len(delays) THEN delays[attempt + 1] ELSE -1

isNetworkError(errorStr) ==
  \/ Includes(errorStr, S_Connection)
  \/ Includes(errorStr, S_timeout)
  \/ Includes(errorStr, S_reset)

\* the loop test with one round too many
MoreTries_OneMore(attempt, maxRetries) == attempt <= maxRetries + 1

\* for (let attempt = 0; attempt <= maxRetries; attempt++)
MoreTries(attempt, maxRetries) == attempt <= maxRetries

\* the outer catch of the spawn version: rethrow on the last round only
SpawnCatch(attempt, maxRetries) ==
  IF attempt = maxRetries THEN "throw" ELSE "continue"

\* what a round does after its git command: "return", "throw", "sleep"
\* (then next round) or "continue" (next round at once)
AfterCommand(impl, op, out, attempt, maxRetries) ==
  IF out.kind = "ok" THEN "return"
  ELSE IF out.kind = "exception" THEN SpawnCatch(attempt, maxRetries)
  ELSE IF op = "push" /\ Includes(out.text, S_403)
    THEN IF impl = "shell" THEN "throw" ELSE SpawnCatch(attempt, maxRetries)
  ELSE IF isNetworkError(out.text) /\ attempt < maxRetries THEN "sleep"
  ELSE IF impl = "shell" THEN "throw" ELSE SpawnCatch(attempt, maxRetries)

GIT_Idle ==
  /\ git_pc = "idle" /\ git_impl = "none" /\ git_op = "none" /\ git_maxRetries = 0
  /\ git_attempt = 0 /\ git_tries = 0 /\ git_last = NoOutcome /\ git_delay = 0
  /\ git_ret = "none" /\ git_waits = <<>>

GIT_Init ==
  /\ git_pc = "loop"
  /\ git_impl \in {"shell", "spawn"}
  /\ git_op \in {"push", "fetch"}
  /\ git_maxRetries \in {-1, 0, 1, DefaultMaxRetries, MaxRetriesArg}
  /\ git_attempt = 0 /\ git_tries = 0 /\ git_last = NoOutcome /\ git_delay = 0
  /\ git_ret = "none" /\ git_waits = <<>>

\* one round of the loop: run the git command and handle its outcome
GIT_Attempt ==
  /\ prog = "git" /\ git_pc = "loop"
  /\ MoreTries(git_attempt, git_maxRetries)
  /\ git_tries' = git_tries + 1
  /\ \E out \in GitOutcomes(git_impl) :
       LET next == AfterCommand(git_impl, git_op, out, git_attempt, git_maxRetries) IN
         /\ git_last' = out
         /\ git_pc' = CASE next = "return" -> "returned"
                         [] next = "throw" -> "threw"
                         [] next = "sleep" -> "sleep"
                         [] OTHER -> "loop"
         /\ git_ret' = IF next = "return" THEN "true" ELSE git_ret
         /\ git_delay' = IF next = "sleep" THEN DelayAt(git_attempt) ELSE git_delay
         /\ git_attempt' = IF next = "continue" THEN git_attempt + 1 ELSE git_attempt
  /\ UNCHANGED <<prog, clVars, lpVars, wcVars, bcVars, e2eVars, prVars, appVars, fnVars, cpVars, rwVars, apiVars, vdVars, upVars, git_impl, git_op, git_maxRetries,
                 git_waits>>

\* await Bun.sleep(delay) ends and the next round starts; a sleep on an
\* undefined delay may instead throw, which the shell version lets escape
\* and the spawn version catches in a round that is not the last
GIT_Wake ==
  /\ prog = "git" /\ git_pc = "sleep"
  /\ \/ /\ git_pc' = "loop" /\ git_attempt' = git_attempt + 1
        /\ git_waits' = Append(git_waits, git_delay)
     \/ /\ git_delay = -1
        /\ IF git_impl = "shell"
           THEN git_pc' = "threw" /\ git_attempt' = git_attempt
           ELSE git_pc' = "loop" /\ git_attempt' = git_attempt + 1
        /\ git_waits' = git_waits
  /\ UNCHANGED <<prog, clVars, lpVars, wcVars, bcVars, e2eVars, prVars, appVars, fnVars, cpVars, rwVars, apiVars, vdVars, upVars, git_impl, git_op,
                 git_maxRetries, git_tries, git_last, git_delay, git_ret>>

\* the loop ends without a return or throw: return false
GIT_LoopEnd ==
  /\ prog = "git" /\ git_pc = "loop"
  /\ ~MoreTries(git_attempt, git_maxRetries)
  /\ git_pc' = "returned" /\ git_ret' = "false"
  /\ UNCHANGED <<prog, clVars, lpVars, wcVars, bcVars, e2eVars, prVars, appVars, fnVars, cpVars, rwVars, apiVars, vdVars, upVars, git_impl, git_op,
                 git_maxRetries, git_attempt, git_tries, git_last, git_delay,
                 git_waits>>

GIT_Next == GIT_Attempt \/ GIT_Wake \/ GIT_LoopEnd

\* C7 (state part): number of push attempts and how push ends
C7_PushOutcome ==
  (prog = "git" /\ git_op = "push") =>
    /\ git_tries <= git_maxRetries + 1
    /\ git_maxRetries = 4 => git_tries <= 5
    /\ git_ret = "true" => (git_pc = "returned" /\ git_last.kind = "ok")
    /\ (git_tries = git_maxRetries + 1 /\ git_last.kind \in {"fail", "exception"})
         => git_pc = "threw"
    /\ (git_pc = "returned" /\ git_last.kind # "ok") => git_tries = 0

\* C7: push runs git push at most maxRetries+1 times (5 by default),
\* returns true at the first successful attempt and attempts nothing more,
\* throws when the last attempt fails and never returns normally after a
\* failed final attempt.
C7_PushAttempts ==
  /\ []C7_PushOutcome
  /\ [][(git_op = "push" /\ git_last.kind = "ok") => git_tries' = git_tries]_vars
  /\ [][(git_op = "push" /\ git_pc \in {"returned", "threw"}) => UNCHANGED gitVars]_vars

\* C7 witness: the default push failed five times and threw
C7_Witness ==
  /\ prog = "git" /\ git_op = "push" /\ git_maxRetries = 4
  /\ git_tries = 5 /\ git_pc = "threw" /\ git_last.kind = "fail"

\* C8: after a push attempt failed with an error text containing `403',
\* no further push attempt is made and push throws.
C8_No403Retry ==
  /\ [][(git_op = "push" /\ git_last.kind = "fail" /\ Includes(git_last.text, S_403))
          => git_tries' = git_tries]_vars
  /\ [](( git_op = "push" /\ git_last.kind = "fail" /\ Includes(git_last.text, S_403))
          => git_pc = "threw")

\* the last attempt failed with an error text naming no network problem
FailedOtherwise ==
  /\ git_last.kind = "fail"
  /\ ~Includes(git_last.text, S_Connection)
  /\ ~Includes(git_last.text, S_timeout)
  /\ ~Includes(git_last.text, S_reset)

\* C21: push and fetch retry only network errors: after a failed attempt
\* whose error text contains none of `Connection', `timeout', `reset' the
\* call throws with no further attempt, and an attempt that failed with
\* such a text is followed by another only while attempts remain.
C21_RetryOnlyNetworkErrors ==
  /\ [][FailedOtherwise => git_tries' = git_tries]_vars
  /\ [](FailedOtherwise => git_pc = "threw")
  /\ [](prog = "git" => (git_tries <= git_maxRetries + 1 \/ git_tries = 0))

\* the attempts the shell version makes obey it
C21_ShellVersion ==
  (prog = "git" /\ git_impl = "shell" /\ FailedOtherwise) => git_pc = "threw"

\* C22: every retry of push or fetch is preceded by a defined wait of
\* exponential backoff: before attempt k+2 the wait is 2000*2^k ms, for
\* every maxRetries (also above 4) and every kind of failure that leads to
\* another attempt.
C22_BackoffBeforeRetry ==
  prog = "git" =>
    \A k \in 0..(git_tries - 2) :
      /\ Len(git_waits) > k
      /\ git_waits[k + 1] = 2000 * 2^k

\* with at most four retries the shell version waits as described
C22_ShellVersionDefault ==
  (prog = "git" /\ git_impl = "shell" /\ git_maxRetries <= 4) =>
    \A k \in 0..(git_tries - 2) :
      /\ Len(git_waits) > k
      /\ git_waits[k + 1] = 2000 * 2^k

\* the shell version with maxRetries 5 made its sixth attempt after a sleep
\* on delays[4], which is undefined
C22_ShellUndefinedDelay ==
  /\ prog = "git" /\ git_impl = "shell" /\ git_maxRetries = 5 /\ git_tries = 6
  /\ Len(git_waits) = 5 /\ git_waits[5] = -1

----------------------------------------------------------------------------
(* UploadService.upload with ValidationService and GitHubApiClient         *)

maxSizeBytes == 10 * 1024 * 1024
allowedExtensions ==
  { <<".","j","p","g">>, <<".","j","p","e","g">>, <<".","p","n","g">>,
    <<".","g","i","f">>, <<".","w","e","b","p">> }
allowedMimeTypes == {"image/jpeg", "image/png", "image/gif", "image/webp"}
uploadPath == <<"u","p","l","o","a","d","s">>

UpperLetters == <<"A","B","C","D","E","F","G","H","I","J","K","L","M",
                  "N","O","P","Q","R","S","T","U","V","W","X","Y","Z">>
LowerLetters == <<"a","b","c","d","e","f","g","h","i","j","k","l","m",
                  "n","o","p","q","r","s","t","u","v","w","x","y","z">>
Digits == <<"0","1","2","3","4","5","6","7","8","9">>

InSeq(c, seq) == \E i \in 1..Len(seq) : seq[i] = c

LowerChar(c) ==
  IF InSeq(c, UpperLetters)
  THEN LowerLetters[CHOOSE i \in 1..Len(UpperLetters) : UpperLetters[i] = c]
  ELSE c

\* String.prototype.toLowerCase
toLowerCase(s) == [i \in 1..Len(s) |-> LowerChar(s[i])]

\* String.prototype.lastIndexOf('.') counted from 1; 0 when there is none
LastDot(s) ==
  IF \E i \in 1..Len(s) : s[i] = "."
  THEN CHOOSE i \in 1..Len(s) : s[i] = "." /\ \A k \in (i + 1)..Len(s) : s[k] # "."
  ELSE 0

getFileExtension(filename) ==
  LET lastDot == LastDot(filename)
  IN IF lastDot # 0 THEN toLowerCase(SubSeq(filename, lastDot, Len(filename))) ELSE <<>>

UploadFile(size, name, type) ==
  [present |-> TRUE, size |-> size, name |-> name, type |-> type]
NoUploadFile == [present |-> FALSE, size |-> 0, name |-> <<>>, type |-> ""]

FileNames ==
  { <<"F","o","t","o"," ","1",".","J","P","G">>, <<"a",".","p","n","g">>,
    <<"a",".","t","x","t">>, <<"p","n","g">>, <<"a",".","b",".","G","i","f">>,
    <<"a",".","j","p","g",".","s","h">> }
FileSizes == {0, maxSizeBytes, maxSizeBytes + 1}
FileTypes == {"image/jpeg", "image/png", "text/plain", "IMAGE/PNG"}

UploadFiles ==
  {NoUploadFile}
  \cup {UploadFile(sz, n, t) : sz \in FileSizes, n \in FileNames, t \in FileTypes}

NotValidated == [isValid |-> FALSE, errors |-> <<>>]

\* validateFile rejecting a file of exactly maxSizeBytes
validateFile_SizeInclusive(file) ==
  IF ~file.present
  THEN [isValid |-> FALSE, errors |-> <<"FILE_REQUIRED">>]
  ELSE
    LET e1 == IF file.size >= maxSizeBytes THEN <<"FILE_TOO_LARGE">> ELSE <<>>
        e2 == IF getFileExtension(file.name) \notin allowedExtensions
              THEN <<"INVALID_FILE_TYPE">> ELSE <<>>
        e3 == IF file.type \notin allowedMimeTypes
              THEN <<"INVALID_MIME_TYPE">> ELSE <<>>
        errors == e1 \o e2 \o e3
    IN [isValid |-> Len(errors) = 0, errors |-> errors]

\* ValidationService.validateFile; errors holds the codes in order
validateFile(file) ==
  IF ~file.present
  THEN [isValid |-> FALSE, errors |-> <<"FILE_REQUIRED">>]
  ELSE
    LET e1 == IF file.size > maxSizeBytes THEN <<"FILE_TOO_LARGE">> ELSE <<>>
        e2 == IF getFileExtension(file.name) \notin allowedExtensions
              THEN <<"INVALID_FILE_TYPE">> ELSE <<>>
        e3 == IF file.type \notin allowedMimeTypes
              THEN <<"INVALID_MIME_TYPE">> ELSE <<>>
        errors == e1 \o e2 \o e3
    IN [isValid |-> Len(errors) = 0, errors |-> errors]

\* the characters /[^a-zA-Z0-9._-]/ keeps
IsSafeChar(c) ==
  InSeq(c, UpperLetters) \/ InSeq(c, LowerLetters) \/ InSeq(c, Digits)
    \/ c \in {".", "_", "-"}

\* ValidationService.sanitizeFilename
RECURSIVE sanitizeFilename(_)
sanitizeFilename(s) ==
  IF s = <<>> THEN <<>>
  ELSE LET c == Head(s) rest == Tail(s) IN
    IF IsSpace(c)
      THEN IF rest # <<>> /\ IsSpace(Head(rest)) THEN sanitizeFilename(rest)
           ELSE <<"_">> \o sanitizeFilename(rest)
    ELSE IF c = "ä" THEN <<"a","e">> \o sanitizeFilename(rest)
    ELSE IF c = "ö" THEN <<"o","e">> \o sanitizeFilename(rest)
    ELSE IF c = "ü" THEN <<"u","e">> \o sanitizeFilename(rest)
    ELSE IF c = "ß" THEN <<"s","s">> \o sanitizeFilename(rest)
    ELSE IF c = "Ä" THEN <<"A","e">> \o sanitizeFilename(rest)
    ELSE IF c = "Ö" THEN <<"O","e">> \o sanitizeFilename(rest)
    ELSE IF c = "Ü" THEN <<"U","e">> \o sanitizeFilename(rest)
    ELSE IF IsSafeChar(c) THEN <<c>> \o sanitizeFilename(rest)
    ELSE sanitizeFilename(rest)

\* the timestamp of generateFilename: the date of toISOString() and, after
\* the `T', the part before the first `-', which is the hour
Timestamp(t) == [date |-> t \div 86400, hour |-> (t % 86400) \div 3600]

\* ValidationService.generateFilename:
\* `spielbericht_${timestamp}_${sanitized}${extension}`
generateFilename(originalFilename, t) ==
  LET extension == getFileExtension(originalFilename)
      lastDot == LastDot(originalFilename)
      cut == SubSeq(originalFilename, 1, lastDot - 1)
      nameWithoutExt == IF cut # <<>> THEN cut ELSE originalFilename
  IN [timestamp |-> Timestamp(t),
      name |-> sanitizeFilename(nameWithoutExt) \o extension]

NoFileName == [timestamp |-> Timestamp(0), name |-> <<>>]

Base64Alphabet ==
  UpperLetters \o LowerLetters \o Digits \o <<"+", "/">>
B64(n) == Base64Alphabet[n + 1]

\* window.btoa of the binary string, Buffer.from(buffer).toString('base64')
RECURSIVE base64(_)
base64(b) ==
  IF Len(b) = 0 THEN <<>>
  ELSE IF Len(b) = 1 THEN
    <<B64(b[1] \div 4), B64((b[1] % 4) * 16), "=", "=">>
  ELSE IF Len(b) = 2 THEN
    <<B64(b[1] \div 4), B64((b[1] % 4) * 16 + b[2] \div 16),
      B64((b[2] % 16) * 4), "=">>
  ELSE
    <<B64(b[1] \div 4), B64((b[1] % 4) * 16 + b[2] \div 16),
      B64((b[2] % 16) * 4 + b[3] \div 64), B64(b[3] % 64)>>
      \o base64(SubSeq(b, 4, Len(b)))

\* UploadService.arrayBufferToBase64: the encoding, or <<"throw">> where
\* neither window.btoa nor Buffer exists
arrayBufferToBase64(buffer, env) ==
  IF env \in {"browser", "node"} THEN [thrown |-> FALSE, value |-> base64(buffer)]
  ELSE [thrown |-> TRUE, value |-> <<>>]

FileBytes == { <<>>, <<77>>, <<77, 97>>, <<77, 97, 110>>, <<255, 216, 255, 224>> }

UploadResponse(success, hasData, hasError, code, details) ==
  [success |-> success, hasData |-> hasData, hasError |-> hasError,
   code |-> code, details |-> details]
NoResponse == UploadResponse(FALSE, FALSE, FALSE, "none", "none")

\* the return of upload for a failed validation
ValidationFailed ==
  UploadResponse(FALSE, FALSE, TRUE, "VALIDATION_ERROR", "errors")

\* the return of upload at the end of the try block
Uploaded == UploadResponse(TRUE, TRUE, FALSE, "", "")

\* the catch block of upload; message is error.message
UploadCatch(message) ==
  UploadResponse(FALSE, FALSE, TRUE, "UPLOAD_ERROR",
                 IF message = "" THEN "Unbekannter Fehler" ELSE message)

\* upload going on to processFile whatever validateFile said
AfterValidation_NoReturn(validationResult) == "process"

\* `if (!validationResult.isValid) return ...'
AfterValidation(validationResult) ==
  IF ~validationResult.isValid THEN "respond" ELSE "process"

\* the try block of upload with the uploadFile call left outside
InTry_SendOutside(step) == step \in {"validate", "process", "encode"}

\* the steps of upload the try block encloses
InTry(step) == step \in {"validate", "process", "encode", "send"}

UP_Idle ==
  /\ up_pc = "idle" /\ up_file = NoUploadFile /\ up_bytes = <<>> /\ up_env = "none"
  /\ up_time = 0 /\ up_read = FALSE /\ up_fileName = NoFileName
  /\ up_sent = <<>> /\ up_response = NoResponse /\ up_validation = NotValidated

UP_Init ==
  /\ up_pc = "start"
  /\ up_file \in UploadFiles
  /\ up_bytes \in FileBytes
  /\ up_env \in {"browser", "node", "none"}
  /\ up_time \in {0, 3599, 3600}
  /\ up_read = FALSE /\ up_fileName = NoFileName
  /\ up_sent = <<>> /\ up_response = NoResponse /\ up_validation = NotValidated

\* a throw at `step' with error.message `message'
UP_Throw(step, message) ==
  IF InTry(step)
  THEN up_pc' = "done" /\ up_response' = UploadCatch(message)
  ELSE up_pc' = "threw" /\ up_response' = up_response

\* Step 1: validate, return the validation error or go on
UP_Validate ==
  /\ prog = "upload" /\ up_pc = "start"
  /\ up_validation' = validateFile(up_file)
  /\ IF AfterValidation(up_validation') = "respond"
     THEN up_pc' = "done" /\ up_response' = ValidationFailed
     ELSE up_pc' = "reading" /\ up_response' = up_response
  /\ UNCHANGED <<prog, clVars, lpVars, wcVars, bcVars, e2eVars, prVars, appVars, fnVars, cpVars, rwVars, apiVars, vdVars, gitVars, up_file, up_bytes,
                 up_env, up_time, up_read, up_fileName, up_sent>>

\* Steps 2 to 4: await file.arrayBuffer(), generate the file name, encode;
\* a missing file has no arrayBuffer and the read throws a TypeError
UP_Process ==
  /\ prog = "upload" /\ up_pc = "reading"
  /\ up_read' = TRUE
  /\ \/ /\ up_file.present
        /\ up_fileName' = generateFilename(up_file.name, up_time)
        /\ IF arrayBufferToBase64(up_bytes, up_env).thrown
           THEN UP_Throw("encode", "Base64 encoding not supported in this environment")
           ELSE up_pc' = "sending" /\ up_response' = up_response
     \/ /\ up_fileName' = up_fileName
        /\ \E message \in {"", "NotReadableError"} : UP_Throw("process", message)
  /\ UNCHANGED <<prog, clVars, lpVars, wcVars, bcVars, e2eVars, prVars, appVars, fnVars, cpVars, rwVars, apiVars, vdVars, gitVars, up_file, up_bytes,
                 up_env, up_time, up_sent, up_validation>>

\* Steps 5 and 6: await githubClient.uploadFile(...), which returns or
\* throws Error(`GitHub API error: ...`); then the success response
UP_Send ==
  /\ prog = "upload" /\ up_pc = "sending"
  /\ up_sent' = Append(up_sent,
        [filePath |-> [dir |-> uploadPath, file |-> up_fileName],
         content |-> arrayBufferToBase64(up_bytes, up_env).value])
  /\ \/ up_pc' = "done" /\ up_response' = Uploaded
     \/ UP_Throw("send", "GitHub API error")
  /\ UNCHANGED <<prog, clVars, lpVars, wcVars, bcVars, e2eVars, prVars, appVars, fnVars, cpVars, rwVars, apiVars, vdVars, gitVars, up_file, up_bytes,
                 up_env, up_time, up_read, up_fileName, up_validation>>

UP_Next == UP_Validate \/ UP_Process \/ UP_Send

\* C9: upload validates first: for a file validateFile rejects, nothing is
\* read or sent and the response is success false with VALIDATION_ERROR;
\* uploadFile is called only after validation passed, with the base64
\* encoding of the file content.
C9_ValidateBeforeUpload ==
  prog = "upload" =>
    /\ ~validateFile(up_file).isValid =>
         /\ ~up_read /\ Len(up_sent) = 0
         /\ up_pc = "done" =>
              (~up_response.success /\ up_response.code = "VALIDATION_ERROR")
    /\ Len(up_sent) > 0 =>
         /\ validateFile(up_file).isValid
         /\ up_read
         /\ up_sent[1].content = base64(up_bytes)
    /\ Len(up_sent) <= 1

\* C9 witness: a valid file went to the API, base64-encoded
C9_Witness ==
  /\ prog = "upload" /\ up_pc = "done" /\ up_response.success
  /\ Len(up_sent) = 1 /\ up_bytes = <<77, 97, 110>>
  /\ up_sent[1].content = <<"T","W","F","u">>

\* C10: upload never throws; a failure while reading, encoding or sending
\* gives success false with UPLOAD_ERROR; every response carries exactly
\* one of data and error, data exactly when success is true.
C10_NeverThrows ==
  prog = "upload" =>
    /\ up_pc # "threw"
    /\ up_pc = "done" =>
         /\ up_response.hasData # up_response.hasError
         /\ up_response.hasData <=> up_response.success
         /\ up_response.success <=> (Len(up_sent) = 1 /\ up_response.code = "")
         /\ (~up_response.success /\ validateFile(up_file).isValid)
              => up_response.code = "UPLOAD_ERROR"
    /\ up_pc # "done" => up_response = NoResponse

\* C10 witness: the GitHub API call failed and upload answered UPLOAD_ERROR
C10_Witness ==
  /\ prog = "upload" /\ up_pc = "done" /\ Len(up_sent) = 1
  /\ up_response.code = "UPLOAD_ERROR" /\ up_response.details = "GitHub API error"

\* the three checks of a present file, stated on the file itself
SizeOk(file) == file.size <= 10485760
ExtensionOk(file) ==
  \E e \in allowedExtensions : EndsWith(toLowerCase(file.name), e)
MimeOk(file) == file.type \in allowedMimeTypes

\* the error codes of the failing checks, in the order size, extension, MIME
ExpectedErrors(file) ==
  (IF SizeOk(file) THEN <<>> ELSE <<"FILE_TOO_LARGE">>)
    \o (IF ExtensionOk(file) THEN <<>> ELSE <<"INVALID_FILE_TYPE">>)
    \o (IF MimeOk(file) THEN <<>> ELSE <<"INVALID_MIME_TYPE">>)

\* C11: validateFile answers isValid exactly for a present file of at most
\* maxSizeBytes (10 MB itself passes) with an allowed extension, compared
\* case-insensitively, and an allowed MIME type; a present file gets one
\* error per failing check in the order FILE_TOO_LARGE, INVALID_FILE_TYPE,
\* INVALID_MIME_TYPE, a missing file only FILE_REQUIRED.
C11_ValidateFile ==
  (prog = "upload" /\ up_pc # "start") =>
    /\ up_validation.isValid <=>
         (up_file.present /\ SizeOk(up_file) /\ ExtensionOk(up_file) /\ MimeOk(up_file))
    /\ up_file.present => up_validation.errors = ExpectedErrors(up_file)
    /\ ~up_file.present => up_validation.errors = <<"FILE_REQUIRED">>

\* C11 witness: a file of exactly 10 MB with an upper-case extension passed
C11_Witness ==
  /\ prog = "upload" /\ up_pc # "start" /\ up_validation.isValid
  /\ up_file.size = 10 * 1024 * 1024
  /\ up_file.name = <<"F","o","t","o"," ","1",".","J","P","G">>

----------------------------------------------------------------------------
(* ValidationService.generateFilename called repeatedly while time passes  *)

MaxCalls == 2
MaxTicks == 3

\* seconds between two readings of the clock
ClockSteps == {1, 3599, 3600, 86400}

FN_Idle ==
  /\ fn_original = <<>> /\ fn_clock = 0 /\ fn_ticks = 0 /\ fn_calls = <<>>

FN_Init ==
  /\ fn_original \in FileNames
  /\ fn_clock = 0 /\ fn_ticks = 0 /\ fn_calls = <<>>

\* one call of generateFilename(originalFilename) at the current instant
FN_Generate ==
  /\ prog = "filename" /\ Len(fn_calls) < MaxCalls
  /\ fn_calls' = Append(fn_calls,
       [at |-> fn_clock, fileName |-> generateFilename(fn_original, fn_clock)])
  /\ UNCHANGED <<prog, clVars, lpVars, wcVars, bcVars, e2eVars, prVars, appVars, cpVars, rwVars, apiVars, vdVars, gitVars, upVars,
                 fn_original, fn_clock, fn_ticks>>

\* time passes between two calls
FN_Tick ==
  /\ prog = "filename" /\ fn_ticks < MaxTicks
  /\ \E d \in ClockSteps : fn_clock' = fn_clock + d
  /\ fn_ticks' = fn_ticks + 1
  /\ UNCHANGED <<prog, clVars, lpVars, wcVars, bcVars, e2eVars, prVars, appVars, cpVars, rwVars, apiVars, vdVars, gitVars, upVars,
                 fn_original, fn_calls>>

FN_Next == FN_Generate \/ FN_Tick

\* C12: two calls of generateFilename with the same original filename at
\* instants at least one second apart return different names.
C12_UniqueNames ==
  \A i, j \in DOMAIN fn_calls :
    (fn_calls[j].at - fn_calls[i].at >= 1)
      => fn_calls[i].fileName # fn_calls[j].fileName

----------------------------------------------------------------------------
(* main.ts: initApp                                                        *)

TokenMissingMessage ==
  "GitHub token nicht konfiguriert. Bitte kontaktieren Sie den Administrator."
LoadFailedMessage ==
  "Fehler beim Laden der Anwendung. Bitte laden Sie die Seite neu."

\* values of window.__GITHUB_TOKEN__: not injected, injected empty, injected
Tokens == {"undefined", "", "ghp_a", "github_pat_b"}

\* !config.github.token
TokenMissing(token) == token \in {"undefined", ""}

Health(healthy, message) == [healthy |-> healthy, message |-> message]
NoHealth == Health(FALSE, "none")

\* UploadService.healthCheck over GitHubApiClient.healthCheck: repos.get
\* answers or rejects, the rejection becomes hasAccess false
HealthResults ==
  { Health(TRUE, "GitHub API access verified"),
    Health(FALSE, "GitHub API error: Bad credentials"),
    Health(FALSE, "GitHub API error: Not Found"),
    Health(FALSE, "GitHub API error: Failed to fetch") }

\* showError: the text is set on the message element if the page has one
Shown(messageDiv, shown, message) == IF messageDiv THEN message ELSE shown

\* initApp giving up after a failed health check
AfterHealth_StopIfUnhealthy(health) == IF health.healthy THEN "form" ELSE "done"

\* initApp after the health check: a failed check is only logged
AfterHealth(health) == "form"

APP_Idle ==
  /\ app_pc = "idle" /\ app_readyState = "complete" /\ app_token = "undefined"
  /\ app_messageDiv = FALSE /\ app_service = FALSE /\ app_health = NoHealth
  /\ app_form = "none" /\ app_errors = <<>> /\ app_shown = "none"

\* main.ts evaluated: initApp runs at once unless the document is loading
APP_Init ==
  /\ app_readyState \in {"loading", "interactive", "complete"}
  /\ app_pc = IF app_readyState = "loading" THEN "listening" ELSE "start"
  /\ app_token \in Tokens
  /\ app_messageDiv \in BOOLEAN
  /\ app_service = FALSE /\ app_health = NoHealth
  /\ app_form = "none" /\ app_errors = <<>> /\ app_shown = "none"

\* the DOMContentLoaded listener fires
APP_DomContentLoaded ==
  /\ prog = "app" /\ app_pc = "listening"
  /\ app_readyState' = "interactive"
  /\ app_pc' = "start"
  /\ UNCHANGED <<prog, clVars, lpVars, wcVars, bcVars, e2eVars, prVars, cpVars, rwVars, apiVars, vdVars, gitVars, upVars, fnVars,
                 app_token, app_messageDiv, app_service, app_health, app_form,
                 app_errors, app_shown>>

\* initApp up to the first await: getConfig, the token test, new UploadService
APP_Start ==
  /\ prog = "app" /\ app_pc = "start"
  /\ IF TokenMissing(app_token)
     THEN /\ app_errors' = Append(app_errors, TokenMissingMessage)
          /\ app_shown' = Shown(app_messageDiv, app_shown, TokenMissingMessage)
          /\ app_service' = app_service
          /\ app_pc' = "done"
     ELSE /\ app_service' = TRUE
          /\ app_pc' = "health"
          /\ UNCHANGED <<app_errors, app_shown>>
  /\ UNCHANGED <<prog, clVars, lpVars, wcVars, bcVars, e2eVars, prVars, cpVars, rwVars, apiVars, vdVars, gitVars, upVars, fnVars,
                 app_readyState, app_token, app_messageDiv, app_health, app_form>>

\* await uploadService.healthCheck(), which never rejects
APP_HealthCheck ==
  /\ prog = "app" /\ app_pc = "health"
  /\ \E h \in HealthResults :
       /\ app_health' = h
       /\ app_pc' = AfterHealth(h)
  /\ UNCHANGED <<prog, clVars, lpVars, wcVars, bcVars, e2eVars, prVars, cpVars, rwVars, apiVars, vdVars, gitVars, upVars, fnVars,
                 app_readyState, app_token, app_messageDiv, app_service, app_form,
                 app_errors, app_shown>>

\* new UploadForm(uploadService); UIController throws when a required
\* element is missing, and the catch block of initApp shows the load error
APP_NewUploadForm ==
  /\ prog = "app" /\ app_pc = "form"
  /\ \/ /\ app_messageDiv
        /\ app_form' = "constructed"
        /\ UNCHANGED <<app_errors, app_shown>>
     \/ /\ app_form' = "threw"
        /\ app_errors' = Append(app_errors, LoadFailedMessage)
        /\ app_shown' = Shown(app_messageDiv, app_shown, LoadFailedMessage)
  /\ app_pc' = "done"
  /\ UNCHANGED <<prog, clVars, lpVars, wcVars, bcVars, e2eVars, prVars, cpVars, rwVars, apiVars, vdVars, gitVars, upVars, fnVars,
                 app_readyState, app_token, app_messageDiv, app_service, app_health>>

APP_Next == APP_DomContentLoaded \/ APP_Start \/ APP_HealthCheck \/ APP_NewUploadForm

\* C13: without a GitHub token initApp calls showError with the text
\* `GitHub token nicht konfiguriert...' (displayed in the message element of
\* the page) and returns without constructing UploadService or UploadForm;
\* with a token, a failed health check does not keep initApp from
\* constructing the upload form.
C13_TokenAndHealth ==
  (prog = "app" /\ app_pc = "done") =>
    /\ TokenMissing(app_token) =>
         /\ app_errors = <<TokenMissingMessage>>
         /\ app_messageDiv => app_shown = TokenMissingMessage
         /\ ~app_service /\ app_form = "none" /\ app_health = NoHealth
    /\ (~TokenMissing(app_token) /\ ~app_health.healthy) =>
         /\ app_service /\ app_form # "none"
         /\ app_form = "constructed" => app_errors = <<>>

\* C13 witness: the form was constructed after a failed health check
C13_Witness ==
  /\ prog = "app" /\ app_pc = "done" /\ ~TokenMissing(app_token)
  /\ app_health = Health(FALSE, "GitHub API error: Bad credentials")
  /\ app_form = "constructed"

\* C13 witness of the other case: the token message is on the page
C13_WitnessNoToken ==
  /\ prog = "app" /\ app_pc = "done" /\ app_token = ""
  /\ app_shown = TokenMissingMessage

----------------------------------------------------------------------------
(* .github/workflows-ts/auto-pr.ts: main                                   *)

EnvNames == {"GITHUB_SHA", "GITHUB_REF", "GITHUB_REPOSITORY", "GH_TOKEN", "GITHUB_TOKEN"}

\* getWorkflowContext: !sha || !ref || !repository || !token
MissingEnv(env) ==
  \/ "GITHUB_SHA" \notin env \/ "GITHUB_REF" \notin env
  \/ "GITHUB_REPOSITORY" \notin env
  \/ ("GH_TOKEN" \notin env /\ "GITHUB_TOKEN" \notin env)

\* pull request numbers gh can report; 0 stands for null
PrNumbers == {0, 7}

\* process.exit(code) ends the process where it is called: the statements
\* after it and the finally block of main are not run
ProcessExit(code) ==
  /\ pr_pc' = "exited"
  /\ pr_exit' = code

PR_Idle ==
  /\ pr_pc = "idle" /\ pr_env = {} /\ pr_number = 0 /\ pr_path = ""
  /\ pr_autoMerge = "none" /\ pr_pushes = 0 /\ pr_exit = -1

PR_Init ==
  /\ pr_pc = "start" /\ pr_env \in SUBSET EnvNames
  /\ pr_number = 0 /\ pr_path = "" /\ pr_autoMerge = "none"
  /\ pr_pushes = 0 /\ pr_exit = -1

\* getWorkflowContext throws into the catch block, or the clients are made
\* and getRepositorySettings is logged
PR_Context ==
  /\ prog = "auto-pr" /\ pr_pc = "start"
  /\ IF MissingEnv(pr_env)
     THEN pr_pc' = "finally" /\ pr_path' = "missing_env"
     ELSE pr_pc' = "find" /\ pr_path' = pr_path
  /\ UNCHANGED <<prog, clVars, lpVars, wcVars, bcVars, e2eVars, cpVars, rwVars, apiVars, vdVars, gitVars, upVars, fnVars,
                 appVars, pr_env, pr_number, pr_autoMerge, pr_pushes, pr_exit>>

\* let prNumber = await github.findPullRequest(ctx.branch)
PR_FindPullRequest ==
  /\ prog = "auto-pr" /\ pr_pc = "find"
  /\ \E n \in PrNumbers :
       /\ pr_number' = n
       /\ IF n # 0
          THEN pr_pc' = "automerge" /\ pr_path' = "existing"
          ELSE pr_pc' = "message" /\ pr_path' = pr_path
  /\ UNCHANGED <<prog, clVars, lpVars, wcVars, bcVars, e2eVars, cpVars, rwVars, apiVars, vdVars, gitVars, upVars, fnVars,
                 appVars, pr_env, pr_autoMerge, pr_pushes, pr_exit>>

\* git.getLatestCommitMessage rethrows a failure of git log; getCommitLog
\* returns [] instead
PR_CommitMessage ==
  /\ prog = "auto-pr" /\ pr_pc = "message"
  /\ \E ok \in BOOLEAN :
       IF ok THEN pr_pc' = "create" /\ pr_path' = pr_path
       ELSE pr_pc' = "finally" /\ pr_path' = "threw"
  /\ UNCHANGED <<prog, clVars, lpVars, wcVars, bcVars, e2eVars, cpVars, rwVars, apiVars, vdVars, gitVars, upVars, fnVars,
                 appVars, pr_env, pr_number, pr_autoMerge, pr_pushes, pr_exit>>

\* github.createPullRequest, and on null the second findPullRequest; with
\* no number from either main calls process.exit(0)
PR_CreatePullRequest ==
  /\ prog = "auto-pr" /\ pr_pc = "create"
  /\ \E result \in PrNumbers :
       IF result # 0
       THEN /\ pr_number' = result /\ pr_path' = "created"
            /\ pr_pc' = "automerge" /\ pr_exit' = pr_exit
       ELSE \E n \in PrNumbers :
              /\ pr_number' = n
              /\ IF n = 0
                 THEN pr_path' = "none" /\ ProcessExit(0)
                 ELSE /\ pr_path' = "existing"
                      /\ pr_pc' = "automerge" /\ pr_exit' = pr_exit
  /\ UNCHANGED <<prog, clVars, lpVars, wcVars, bcVars, e2eVars, cpVars, rwVars, apiVars, vdVars, gitVars, upVars, fnVars,
                 appVars, pr_env, pr_autoMerge, pr_pushes>>

\* the prNumber guard, enableAutoMerge and the final status report
PR_EnableAutoMerge ==
  /\ prog = "auto-pr" /\ pr_pc = "automerge"
  /\ IF pr_number = 0
     THEN ProcessExit(0) /\ pr_autoMerge' = pr_autoMerge
     ELSE /\ \E enabled \in BOOLEAN :
               pr_autoMerge' = IF enabled THEN "enabled" ELSE "failed"
          /\ pr_pc' = "finally" /\ pr_exit' = pr_exit
  /\ UNCHANGED <<prog, clVars, lpVars, wcVars, bcVars, e2eVars, cpVars, rwVars, apiVars, vdVars, gitVars, upVars, fnVars,
                 appVars, pr_env, pr_number, pr_path, pr_pushes>>

\* the finally block: logPusher.pushLogs is awaited, a rejection is logged
PR_Finally ==
  /\ prog = "auto-pr" /\ pr_pc = "finally"
  /\ pr_pushes' = pr_pushes + 1
  /\ pr_pc' = "returned"
  /\ UNCHANGED <<prog, clVars, lpVars, wcVars, bcVars, e2eVars, cpVars, rwVars, apiVars, vdVars, gitVars, upVars, fnVars,
                 appVars, pr_env, pr_number, pr_path, pr_autoMerge, pr_exit>>

\* main() has settled and nothing is left to run: the process ends
PR_End ==
  /\ prog = "auto-pr" /\ pr_pc = "returned"
  /\ ProcessExit(0)
  /\ UNCHANGED <<prog, clVars, lpVars, wcVars, bcVars, e2eVars, cpVars, rwVars, apiVars, vdVars, gitVars, upVars, fnVars,
                 appVars, pr_env, pr_number, pr_path, pr_autoMerge, pr_pushes>>

PR_Next ==
  \/ PR_Context \/ PR_FindPullRequest \/ PR_CommitMessage
  \/ PR_CreatePullRequest \/ PR_EnableAutoMerge \/ PR_Finally \/ PR_End

\* C14: on every execution path of main (missing environment variables,
\* existing PR, PR created, PR neither found nor created)
\* LogPusher.pushLogs is invoked before the process terminates.
C14_AlwaysPushesLogs ==
  (prog = "auto-pr" /\ pr_pc = "exited") => pr_pushes >= 1

\* the paths of main on which the logs are pushed
C14_PushedUnlessExitCalled ==
  (prog = "auto-pr" /\ pr_pc = "exited") => (pr_pushes = 1 <=> pr_path # "none")

----------------------------------------------------------------------------
(* src/workflows/e2e-local.ts: main                                        *)

\* the commands of main in order; the last one runs in its own try block
E2E_Commands ==
  <<"npm ci", "npx playwright install --with-deps chromium", "npm run build",
    "npm run test">>
E2E_Steps == 1..Len(E2E_Commands)
TestStep == Len(E2E_Commands)

ArtifactDirs == {"test-results", "playwright-report"}

AfterRun(pc, step, testFailed, thrown) ==
  [pc |-> pc, step |-> step, testFailed |-> testFailed, thrown |-> thrown]

\* main skipping the log step when a command before the tests fails
AfterRunCommand_NoFinally(step, ok) ==
  IF ok
  THEN IF step = TestStep THEN AfterRun("finally", step, FALSE, FALSE)
       ELSE AfterRun("run", step + 1, FALSE, FALSE)
  ELSE IF step = TestStep THEN AfterRun("finally", step, TRUE, FALSE)
  ELSE AfterRun("after", step, FALSE, TRUE)

\* where main goes after runCommand returned (ok) or threw: a failing test
\* run sets testFailed, any other failure leaves the try block by the throw;
\* both ways pass the finally block
AfterRunCommand(step, ok) ==
  IF ok
  THEN IF step = TestStep THEN AfterRun("finally", step, FALSE, FALSE)
       ELSE AfterRun("run", step + 1, FALSE, FALSE)
  ELSE IF step = TestStep THEN AfterRun("finally", step, TRUE, FALSE)
  ELSE AfterRun("finally", step, FALSE, TRUE)

\* the exit code: main().catch and the testFailed test call process.exit(1),
\* otherwise main resolves and the process ends with 0
E2E_ExitCode(thrown, testFailed) == IF thrown \/ testFailed THEN 1 ELSE 0

E2E_Idle ==
  /\ e2e_impl = "none" /\ e2e_pc = "idle" /\ e2e_step = 1
  /\ e2e_results = [s \in E2E_Steps |-> "notrun"] /\ e2e_dirs = {}
  /\ e2e_testFailed = FALSE /\ e2e_thrown = FALSE /\ e2e_logSteps = 0
  /\ e2e_copied = {} /\ e2e_exit = -1

E2E_Init ==
  /\ e2e_impl \in {"push", "copy"} /\ e2e_pc = "run" /\ e2e_step = 1
  /\ e2e_results = [s \in E2E_Steps |-> "notrun"] /\ e2e_dirs = {}
  /\ e2e_testFailed = FALSE /\ e2e_thrown = FALSE /\ e2e_logSteps = 0
  /\ e2e_copied = {} /\ e2e_exit = -1

\* runCommand(command, description): execSync returns or throws; the test
\* run leaves the directories of its reports behind
E2E_RunCommand ==
  /\ prog = "e2e-local" /\ e2e_pc = "run"
  /\ \E ok \in BOOLEAN :
       LET next == AfterRunCommand(e2e_step, ok) IN
       /\ e2e_results' = [e2e_results EXCEPT ![e2e_step] = IF ok THEN "ok" ELSE "failed"]
       /\ e2e_pc' = next.pc /\ e2e_step' = next.step
       /\ e2e_testFailed' = next.testFailed /\ e2e_thrown' = next.thrown
  /\ IF e2e_step = TestStep
     THEN e2e_dirs' \in SUBSET ArtifactDirs
     ELSE e2e_dirs' = e2e_dirs
  /\ UNCHANGED <<prog, clVars, lpVars, wcVars, bcVars, cpVars, rwVars, apiVars, vdVars, gitVars, upVars, fnVars,
                 appVars, prVars, e2e_impl, e2e_logSteps, e2e_copied, e2e_exit>>

\* the finally block: pushLogsToGit() or copyTestArtifacts(); mkdirSync,
\* cpSync and writeFileSync are outside every try block and may throw, the
\* git commands of pushLogsToGit are inside one
E2E_LogStep ==
  /\ prog = "e2e-local" /\ e2e_pc = "finally"
  /\ e2e_logSteps' = e2e_logSteps + 1
  /\ \/ e2e_copied' = e2e_dirs /\ e2e_thrown' = e2e_thrown
     \/ \E done \in SUBSET e2e_dirs : e2e_copied' = done /\ e2e_thrown' = TRUE
  /\ e2e_pc' = "after"
  /\ UNCHANGED <<prog, clVars, lpVars, wcVars, bcVars, cpVars, rwVars, apiVars, vdVars, gitVars, upVars, fnVars,
                 appVars, prVars, e2e_impl, e2e_step, e2e_results, e2e_dirs,
                 e2e_testFailed, e2e_exit>>

\* after the finally block: the error goes on to main().catch, or
\* testFailed is tested, or main returns
E2E_Finish ==
  /\ prog = "e2e-local" /\ e2e_pc = "after"
  /\ e2e_exit' = E2E_ExitCode(e2e_thrown, e2e_testFailed)
  /\ e2e_pc' = "exited"
  /\ UNCHANGED <<prog, clVars, lpVars, wcVars, bcVars, cpVars, rwVars, apiVars, vdVars, gitVars, upVars, fnVars,
                 appVars, prVars, e2e_impl, e2e_step, e2e_results, e2e_dirs,
                 e2e_testFailed, e2e_thrown, e2e_logSteps, e2e_copied>>

E2E_Next == E2E_RunCommand \/ E2E_LogStep \/ E2E_Finish

\* C15: the log step of e2e-local (pushLogsToGit or copyTestArtifacts) is
\* executed on every path, whether installation, build or tests fail,
\* before the process exits; the exit code is 0 only if installation, build
\* and tests all succeeded.
C15_LogsAlwaysHandled ==
  (prog = "e2e-local" /\ e2e_pc = "exited") =>
    /\ e2e_logSteps = 1
    /\ e2e_exit \in {0, 1}
    /\ e2e_exit = 0 => \A s \in E2E_Steps : e2e_results[s] = "ok"

\* C15 witness: the build failed, the log step ran, the exit code is 1
C15_Witness ==
  /\ prog = "e2e-local" /\ e2e_pc = "exited" /\ e2e_results[3] = "failed"
  /\ e2e_logSteps = 1 /\ e2e_exit = 1

----------------------------------------------------------------------------
(* branch cleanup script: main                                             *)

MaxAhead == 1

S_origin == <<"o","r","i","g","i","n","/">>
S_originClaude == <<"o","r","i","g","i","n","/","c","l","a","u","d","e","/">>

\* String.prototype.startsWith
StartsWith(s, prefix) ==
  /\ Len(s) >= Len(prefix)
  /\ SubSeq(s, 1, Len(prefix)) = prefix

\* String.prototype.replace with a string pattern: the first occurrence
ReplaceFirst(s, pattern, replacement) ==
  IF Includes(s, pattern)
  THEN LET i == CHOOSE k \in 1..Len(s) :
                  /\ k + Len(pattern) - 1 <= Len(s)
                  /\ SubSeq(s, k, k + Len(pattern) - 1) = pattern
                  /\ \A j \in 1..(k - 1) : SubSeq(s, j, j + Len(pattern) - 1) # pattern
       IN SubSeq(s, 1, i - 1) \o replacement \o SubSeq(s, i + Len(pattern), Len(s))
  ELSE s

\* the branches of origin besides main, by name
B_main == <<"m","a","i","n">>
B_claudeA == <<"c","l","a","u","d","e","/","a">>
B_claudeB == <<"c","l","a","u","d","e","/","b">>
B_fixClaude == <<"f","i","x","/","c","l","a","u","d","e","/","c">>
OriginBranches == {B_main, B_claudeA, B_claudeB, B_fixClaude}
OptionalBranches == {B_claudeA, B_claudeB, B_fixClaude}

\* lines of `git branch -r' in the order git prints them; the line of the
\* other remote is printed when that remote has the branch
L_head == <<" "," ","o","r","i","g","i","n","/","H","E","A","D"," ","-",">"," ","o","r","i","g","i","n","/","m","a","i","n">>
L_upstream == <<" "," ","u","p","s","t","r","e","a","m","/","c","l","a","u","d","e","/","a">>
RemoteLine(branch) == <<" ", " ">> \o S_origin \o branch
BranchOrder == <<B_claudeA, B_claudeB, B_fixClaude, B_main>>

RECURSIVE LinesOf(_, _)
LinesOf(order, present) ==
  IF order = <<>> THEN <<>>
  ELSE (IF Head(order) \in present THEN <<RemoteLine(Head(order))>> ELSE <<>>)
         \o LinesOf(Tail(order), present)

\* result.stdout.split('\n') of `git branch -r'
BranchListing(present, upstream) ==
  <<L_head>> \o LinesOf(BranchOrder, present)
    \o (IF upstream THEN <<L_upstream>> ELSE <<>>) \o << <<>> >>

\* the filter testing for `claude/' anywhere in the line
IsClaudeLine_Anywhere(line) == Includes(line, <<"c","l","a","u","d","e","/">>)

\* .filter(line => line.startsWith('origin/claude/'))
IsClaudeLine(line) == StartsWith(line, S_originClaude)

RECURSIVE ClaudeBranchesOf(_)
\* .map(trim).filter(...).map(line => line.replace('origin/', ''))
ClaudeBranchesOf(lines) ==
  IF lines = <<>> THEN <<>>
  ELSE LET line == Trim(Head(lines)) IN
       (IF IsClaudeLine(line) THEN <<ReplaceFirst(line, S_origin, <<>>)>> ELSE <<>>)
         \o ClaudeBranchesOf(Tail(lines))

DigitValue(c) == (CHOOSE i \in 1..Len(Digits) : Digits[i] = c) - 1

RECURSIVE LeadingDigits(_)
LeadingDigits(s) ==
  IF s # <<>> /\ InSeq(Head(s), Digits)
  THEN <<Head(s)>> \o LeadingDigits(Tail(s))
  ELSE <<>>

RECURSIVE DecimalValue(_)
DecimalValue(ds) ==
  IF ds = <<>> THEN 0
  ELSE DecimalValue(SubSeq(ds, 1, Len(ds) - 1)) * 10 + DigitValue(ds[Len(ds)])

Num(nan, value) == [nan |-> nan, value |-> value]

\* parseInt(string, 10) of an unsigned number: leading white space is
\* skipped, the digits that follow are read, none gives NaN
parseInt(s) ==
  LET ds == LeadingDigits(TrimStart(s))
  IN IF ds = <<>> THEN Num(TRUE, 0) ELSE Num(FALSE, DecimalValue(ds))

\* stdout of `git rev-list --count' for a count below ten
CountStdout(n) == <<Digits[n + 1], "\n">>

\* getBranchInfo.commitsAhead: result.success ? parseInt(result.stdout, 10) : -1
CommitsAhead(success, stdout) == IF success THEN parseInt(stdout) ELSE Num(FALSE, -1)

BranchInfo(name, commitsAhead) == [name |-> name, commitsAhead |-> commitsAhead]

\* branchInfos.filter(b => b.commitsAhead === 0)
ToDelete(infos) ==
  SelectSeq(infos, LAMBDA b : ~b.commitsAhead.nan /\ b.commitsAhead.value = 0)

BC_Idle ==
  /\ bc_pc = "idle" /\ bc_present = {} /\ bc_upstream = FALSE
  /\ bc_ahead = [b \in OriginBranches |-> 0]
  /\ bc_branches = <<>> /\ bc_infos = <<>> /\ bc_toDelete = <<>>
  /\ bc_passed = <<>> /\ bc_deleted = {} /\ bc_exit = -1

BC_Init ==
  /\ bc_pc = "start"
  /\ \E optional \in SUBSET OptionalBranches : bc_present = optional \cup {B_main}
  /\ bc_upstream \in BOOLEAN
  /\ bc_ahead \in [OriginBranches -> 0..MaxAhead]
  /\ bc_ahead[B_main] = 0
  /\ \A b \in OriginBranches \ bc_present : bc_ahead[b] = 0
  /\ bc_branches = <<>> /\ bc_infos = <<>> /\ bc_toDelete = <<>>
  /\ bc_passed = <<>> /\ bc_deleted = {} /\ bc_exit = -1

\* git.fetch('origin', 'main') and git.fetch('origin'): a fetch that throws
\* ends main in main().catch
BC_Fetch ==
  /\ prog = "branch-cleanup" /\ bc_pc = "start"
  /\ \E ok \in BOOLEAN :
       IF ok THEN bc_pc' = "list" /\ bc_exit' = bc_exit
       ELSE bc_pc' = "exited" /\ bc_exit' = 1
  /\ UNCHANGED <<prog, clVars, lpVars, wcVars, cpVars, rwVars, apiVars, vdVars, gitVars, upVars, fnVars,
                 appVars, prVars, e2eVars, bc_present, bc_upstream, bc_ahead,
                 bc_branches, bc_infos, bc_toDelete, bc_passed, bc_deleted>>

\* getAllClaudeBranches and the test branches.length === 0
BC_List ==
  /\ prog = "branch-cleanup" /\ bc_pc = "list"
  /\ \E success \in BOOLEAN :
       bc_branches' = IF success
                      THEN ClaudeBranchesOf(BranchListing(bc_present, bc_upstream))
                      ELSE <<>>
  /\ IF bc_branches' = <<>>
     THEN bc_pc' = "exited" /\ bc_exit' = 0
     ELSE bc_pc' = "analyze" /\ bc_exit' = bc_exit
  /\ UNCHANGED <<prog, clVars, lpVars, wcVars, cpVars, rwVars, apiVars, vdVars, gitVars, upVars, fnVars,
                 appVars, prVars, e2eVars, bc_present, bc_upstream, bc_ahead,
                 bc_infos, bc_toDelete, bc_passed, bc_deleted>>

\* one iteration of the analysis loop: getBranchInfo(branch, git), whose
\* hasCommitsAhead call may throw and whose rev-list may fail; after the
\* last branch, toDelete is computed and tested for emptiness
BC_Analyze ==
  /\ prog = "branch-cleanup" /\ bc_pc = "analyze"
  /\ LET branch == bc_branches[Len(bc_infos) + 1]
         known == branch \in bc_present
     IN \/ /\ \E success \in (IF known THEN BOOLEAN ELSE {FALSE}) :
                bc_infos' = Append(bc_infos,
                  BranchInfo(branch,
                    CommitsAhead(success,
                      IF success THEN CountStdout(bc_ahead[branch]) ELSE <<>>)))
           /\ IF Len(bc_infos') < Len(bc_branches)
              THEN /\ bc_pc' = "analyze"
                   /\ UNCHANGED <<bc_toDelete, bc_exit>>
              ELSE /\ bc_toDelete' = ToDelete(bc_infos')
                   /\ IF bc_toDelete' = <<>>
                      THEN bc_pc' = "exited" /\ bc_exit' = 0
                      ELSE bc_pc' = "delete" /\ bc_exit' = bc_exit
        \/ /\ bc_pc' = "exited" /\ bc_exit' = 1
           /\ UNCHANGED <<bc_infos, bc_toDelete>>
  /\ UNCHANGED <<prog, clVars, lpVars, wcVars, cpVars, rwVars, apiVars, vdVars, gitVars, upVars, fnVars,
                 appVars, prVars, e2eVars, bc_present, bc_upstream, bc_ahead,
                 bc_branches, bc_passed, bc_deleted>>

\* one iteration of the deletion loop: git.deleteBranch('origin', name)
\* answers true (the branch is gone), false, or throws
BC_Delete ==
  /\ prog = "branch-cleanup" /\ bc_pc = "delete"
  /\ LET name == bc_toDelete[Len(bc_passed) + 1].name IN
     /\ bc_passed' = Append(bc_passed, name)
     /\ \E outcome \in {"true", "false", "throw"} :
          /\ bc_deleted' = IF outcome = "true" THEN bc_deleted \cup {name}
                           ELSE bc_deleted
          /\ IF outcome = "throw" THEN bc_pc' = "exited" /\ bc_exit' = 1
             ELSE IF Len(bc_passed') < Len(bc_toDelete)
                  THEN bc_pc' = "delete" /\ bc_exit' = bc_exit
             ELSE bc_pc' = "exited" /\ bc_exit' = 0
  /\ UNCHANGED <<prog, clVars, lpVars, wcVars, cpVars, rwVars, apiVars, vdVars, gitVars, upVars, fnVars,
                 appVars, prVars, e2eVars, bc_present, bc_upstream, bc_ahead,
                 bc_branches, bc_infos, bc_toDelete>>

BC_Next == BC_Fetch \/ BC_List \/ BC_Analyze \/ BC_Delete

\* the branches passed to deleteBranch so far
Passed == {bc_passed[k] : k \in DOMAIN bc_passed}

\* the branch was analysed and rev-list reported its count
Determined(name) ==
  \E k \in DOMAIN bc_infos :
    bc_infos[k].name = name /\ bc_infos[k].commitsAhead = Num(FALSE, bc_ahead[name])

\* C16: only branches of origin named claude/... with 0 commits ahead of
\* origin/main are passed to deleteBranch, never a branch with at least one
\* commit ahead, a branch whose count could not be determined, a branch not
\* starting with claude/, or main; and when the script runs to its end,
\* every claude/ branch found with 0 commits ahead has been passed to it.
C16_DeletesExactly ==
  prog = "branch-cleanup" =>
    /\ \A name \in Passed :
         /\ StartsWith(name, <<"c","l","a","u","d","e","/">>)
         /\ name \in bc_present /\ name # B_main
         /\ Determined(name) /\ bc_ahead[name] = 0
    /\ bc_deleted \subseteq Passed
    /\ (bc_pc = "exited" /\ bc_exit = 0 /\ bc_infos # <<>>) =>
         Passed = {name \in bc_present :
                     StartsWith(name, <<"c","l","a","u","d","e","/">>) /\ Determined(name) /\ bc_ahead[name] = 0}

\* C16 witness: claude/a with no commit ahead was deleted, claude/b with one
\* commit ahead was kept, beside a fix/claude/c branch with no commit ahead
C16_Witness ==
  /\ prog = "branch-cleanup" /\ bc_pc = "exited" /\ bc_exit = 0
  /\ bc_present = OriginBranches
  /\ bc_ahead[B_claudeA] = 0 /\ bc_ahead[B_claudeB] = 1 /\ bc_ahead[B_fixClaude] = 0
  /\ bc_deleted = {B_claudeA}

----------------------------------------------------------------------------
(* tests/upload.spec.ts: waitForCorrectCommit                              *)

MaxPageLoads == 3

\* what one attempt can see: page.goto or the locator rejects ("error"),
\* the page carries no commit ("null"), or the page of some commit
Sightings == {<<"e","r","r","o","r">>, <<"n","u","l","l">>} \cup CommitIds
S_error == <<"e","r","r","o","r">>

\* deployedCommit === expectedSha, or the element #commit-<sha> exists
SeesExpected(sighting, expectedSha) == sighting = expectedSha

\* waiting after every attempt, the last one included
WaitsBeforeRetry_AfterLast(i, maxRetries) == i < maxRetries

\* if (i < maxRetries - 1) await page.waitForTimeout(retryDelayMs)
WaitsBeforeRetry(i, maxRetries) == i < maxRetries - 1

WC_Idle ==
  /\ wc_impl = "none" /\ wc_pc = "idle" /\ wc_expected = <<>>
  /\ wc_maxRetries = 0 /\ wc_i = 0 /\ wc_loads = 0 /\ wc_waits = 0
  /\ wc_history = <<>> /\ wc_result = "none"

WC_Init ==
  /\ wc_impl \in {"attribute", "element"} /\ wc_pc = "loop"
  /\ wc_expected \in CommitIds
  /\ wc_maxRetries \in 0..MaxPageLoads
  /\ wc_i = 0 /\ wc_loads = 0 /\ wc_waits = 0
  /\ wc_history = <<>> /\ wc_result = "none"

\* one pass through the try block: page.goto, the look at the page, and
\* either the return or, for an error as for another commit, the step to
\* the wait or to the next value of i
WC_Attempt ==
  /\ prog = "wait-commit" /\ wc_pc = "loop" /\ wc_i < wc_maxRetries
  /\ wc_loads' = wc_loads + 1
  /\ \E sighting \in Sightings :
       /\ wc_history' = Append(wc_history, sighting)
       /\ IF sighting # S_error /\ SeesExpected(sighting, wc_expected)
          THEN wc_result' = "returned" /\ wc_pc' = "done" /\ wc_i' = wc_i
          ELSE /\ wc_result' = wc_result
               /\ IF WaitsBeforeRetry(wc_i, wc_maxRetries)
                  THEN wc_pc' = "wait" /\ wc_i' = wc_i
                  ELSE wc_pc' = "loop" /\ wc_i' = wc_i + 1
  /\ UNCHANGED <<prog, clVars, lpVars, cpVars, rwVars, apiVars, vdVars, gitVars, upVars, fnVars,
                 appVars, prVars, e2eVars, bcVars, wc_impl, wc_expected,
                 wc_maxRetries, wc_waits>>

\* await page.waitForTimeout(retryDelayMs), then i++
WC_Wait ==
  /\ prog = "wait-commit" /\ wc_pc = "wait"
  /\ wc_waits' = wc_waits + 1
  /\ wc_i' = wc_i + 1
  /\ wc_pc' = "loop"
  /\ UNCHANGED <<prog, clVars, lpVars, cpVars, rwVars, apiVars, vdVars, gitVars, upVars, fnVars,
                 appVars, prVars, e2eVars, bcVars, wc_impl, wc_expected,
                 wc_maxRetries, wc_loads, wc_history, wc_result>>

\* the loop is left: throw new Error(`Timeout: Commit ... was not deployed`)
WC_Timeout ==
  /\ prog = "wait-commit" /\ wc_pc = "loop" /\ ~(wc_i < wc_maxRetries)
  /\ wc_result' = "timeout"
  /\ wc_pc' = "done"
  /\ UNCHANGED <<prog, clVars, lpVars, cpVars, rwVars, apiVars, vdVars, gitVars, upVars, fnVars,
                 appVars, prVars, e2eVars, bcVars, wc_impl, wc_expected,
                 wc_maxRetries, wc_i, wc_loads, wc_waits, wc_history>>

WC_Next == WC_Attempt \/ WC_Wait \/ WC_Timeout

\* attempts of the history that saw the expected commit
Matches == {k \in DOMAIN wc_history : wc_history[k] = wc_expected}

\* C17: waitForCorrectCommit loads the page at most maxRetries times,
\* returns at the first attempt that finds the expected commit, counts an
\* attempt that ended in a navigation error as used without aborting, does
\* not wait after the last attempt, and throws the Timeout error if no
\* attempt found the commit.
C17_WaitForCorrectCommit ==
  prog = "wait-commit" =>
    /\ wc_loads <= wc_maxRetries /\ wc_loads = Len(wc_history)
    /\ wc_waits <= wc_loads
    /\ wc_waits < wc_maxRetries \/ wc_maxRetries = 0
    /\ wc_pc = "done" =>
         /\ wc_result \in {"returned", "timeout"}
         /\ wc_result = "returned" <=> Matches = {Len(wc_history)}
         /\ wc_result = "timeout" <=> Matches = {}
         /\ wc_result = "timeout" => wc_loads = wc_maxRetries
         /\ wc_loads > 0 => wc_waits = wc_loads - 1

\* C17 witness: a navigation error, a wait, then the expected commit
C17_Witness ==
  /\ prog = "wait-commit" /\ wc_pc = "done" /\ wc_result = "returned"
  /\ wc_history = <<S_error, wc_expected>> /\ wc_waits = 1

\* C17 witness of the other end: every attempt failed or saw another
\* commit, no wait followed the last one
C17_WitnessTimeout ==
  /\ prog = "wait-commit" /\ wc_pc = "done" /\ wc_result = "timeout"
  /\ wc_maxRetries = 3 /\ wc_history[3] = S_error /\ wc_waits = 2

----------------------------------------------------------------------------
(* utils/log-pusher.ts: LogPusher.pushLogs, and GitClient.commit            *)

S_nothingToCommit == <<"n","o","t","h","i","n","g"," ","t","o"," ","c","o","m","m","i","t">>
T_clean == S_nothingToCommit \o <<","," ","c","l","e","a","n">>
T_fatal == <<"f","a","t","a","l">>
T_shellError == <<"S","h","e","l","l","E","r","r","o","r">>

\* what git commit can answer: the exit status, its two streams, and the
\* text String(error) gives for the error the shell template throws
CommitResults ==
  [success : BOOLEAN, stdout : {<<>>, T_clean}, stderr : {<<>>, T_clean, T_fatal},
   error : {T_shellError, T_shellError \o T_clean}]

NoCommitResult == [success |-> FALSE, stdout |-> <<>>, stderr |-> <<>>, error |-> <<>>]

\* GitClient.commit: "true", "false" or "threw"
commit(impl, r) ==
  IF r.success THEN "true"
  ELSE IF impl = "shell"
       THEN IF Includes(r.error, S_nothingToCommit) THEN "false" ELSE "threw"
       ELSE IF Includes(r.stdout, S_nothingToCommit)
               \/ Includes(r.stderr, S_nothingToCommit)
            THEN "false" ELSE "threw"

\* a catch block that lets the error of a failed push go on to the caller
CatchBlock_PushEscapes(step) == IF step = "push" THEN "threw" ELSE "false"

\* catch (error) { this.logger.error(...); return false; }
CatchBlock(step) == "false"

LP_Idle ==
  /\ lp_impl = "none" /\ lp_pc = "idle" /\ lp_logFile = "none"
  /\ lp_files = {} /\ lp_result = NoCommitResult /\ lp_committed = "none"
  /\ lp_failed = "none" /\ lp_pushes = 0 /\ lp_pushed = FALSE
  /\ lp_ret = "none"

LP_Init ==
  /\ lp_impl \in {"shell", "spawn"} /\ lp_pc = "prepare"
  /\ lp_logFile \in {"none", "missing", "present"}
  /\ lp_files = {} /\ lp_result = NoCommitResult /\ lp_committed = "none"
  /\ lp_failed = "none" /\ lp_pushes = 0 /\ lp_pushed = FALSE
  /\ lp_ret = "none"

\* the step threw: the catch block of pushLogs decides what the caller gets
LP_Throw(step) ==
  /\ lp_failed' = step
  /\ lp_ret' = CatchBlock(step)
  /\ lp_pc' = "done"

\* mkdirSync, the copy of the job log if it exists, writeFileSync of the
\* summary; any of them can throw
LP_Prepare ==
  /\ prog = "log-pusher" /\ lp_pc = "prepare"
  /\ \/ /\ lp_files' = (IF lp_logFile = "present" THEN {"output.log"} ELSE {})
                          \cup {"summary.txt"}
        /\ lp_pc' = "configure"
        /\ UNCHANGED <<lp_failed, lp_ret>>
     \/ /\ \E done \in SUBSET (IF lp_logFile = "present" THEN {"output.log"} ELSE {}) :
             lp_files' = done
        /\ LP_Throw("prepare")
  /\ UNCHANGED <<prog, clVars, cpVars, rwVars, apiVars, vdVars, gitVars, upVars, fnVars,
                 appVars, prVars, e2eVars, bcVars, wcVars, lp_impl, lp_logFile, lp_result, lp_committed,
                 lp_pushes, lp_pushed>>

\* await this.git.configureUser(...): returns, or logs and rethrows
LP_Configure ==
  /\ prog = "log-pusher" /\ lp_pc = "configure"
  /\ \/ lp_pc' = "add" /\ UNCHANGED <<lp_failed, lp_ret>>
     \/ LP_Throw("configure")
  /\ UNCHANGED <<prog, clVars, cpVars, rwVars, apiVars, vdVars, gitVars, upVars, fnVars,
                 appVars, prVars, e2eVars, bcVars, wcVars, lp_impl, lp_logFile, lp_files, lp_result,
                 lp_committed, lp_pushes, lp_pushed>>

\* await this.git.add(['ci-logs/']): returns, or logs and rethrows
LP_Add ==
  /\ prog = "log-pusher" /\ lp_pc = "add"
  /\ \/ lp_pc' = "commit" /\ UNCHANGED <<lp_failed, lp_ret>>
     \/ LP_Throw("add")
  /\ UNCHANGED <<prog, clVars, cpVars, rwVars, apiVars, vdVars, gitVars, upVars, fnVars,
                 appVars, prVars, e2eVars, bcVars, wcVars, lp_impl, lp_logFile, lp_files, lp_result,
                 lp_committed, lp_pushes, lp_pushed>>

\* const committed = await this.git.commit(...); if (!committed) return false
LP_Commit ==
  /\ prog = "log-pusher" /\ lp_pc = "commit"
  /\ \E r \in CommitResults :
       /\ lp_result' = r
       /\ lp_committed' = commit(lp_impl, r)
       /\ CASE commit(lp_impl, r) = "true" ->
                 lp_pc' = "push" /\ UNCHANGED <<lp_failed, lp_ret>>
            [] commit(lp_impl, r) = "false" ->
                 lp_pc' = "done" /\ lp_ret' = "false" /\ lp_failed' = lp_failed
            [] OTHER -> LP_Throw("commit")
  /\ UNCHANGED <<prog, clVars, cpVars, rwVars, apiVars, vdVars, gitVars, upVars, fnVars,
                 appVars, prVars, e2eVars, bcVars, wcVars, lp_impl, lp_logFile, lp_files, lp_pushes, lp_pushed>>

\* await this.git.push('origin', `HEAD:${ref}`): returns, or throws after
\* its attempts; return true follows the return
LP_Push ==
  /\ prog = "log-pusher" /\ lp_pc = "push"
  /\ lp_pushes' = lp_pushes + 1
  /\ \/ /\ lp_pushed' = TRUE /\ lp_ret' = "true" /\ lp_pc' = "done"
        /\ lp_failed' = lp_failed
     \/ lp_pushed' = lp_pushed /\ LP_Throw("push")
  /\ UNCHANGED <<prog, clVars, cpVars, rwVars, apiVars, vdVars, gitVars, upVars, fnVars,
                 appVars, prVars, e2eVars, bcVars, wcVars, lp_impl, lp_logFile, lp_files, lp_result,
                 lp_committed>>

LP_Next == LP_Prepare \/ LP_Configure \/ LP_Add \/ LP_Commit \/ LP_Push

\* the commit command said there was nothing to commit, where the
\* GitClient at work looks for it
NothingToCommit ==
  /\ ~lp_result.success
  /\ IF lp_impl = "shell" THEN Includes(lp_result.error, S_nothingToCommit)
     ELSE Includes(lp_result.stdout \o lp_result.stderr, S_nothingToCommit)

\* C23: pushLogs never throws; it returns true only when a commit was
\* created and the push succeeded, returns false without a call of push
\* when commit reports nothing to commit, and returns false when
\* configuring, adding, committing or pushing fails.
C23_PushLogsNeverThrows ==
  prog = "log-pusher" =>
    /\ lp_ret # "threw"
    /\ lp_pc = "done" <=> lp_ret \in {"true", "false"}
    /\ lp_ret = "true" =>
         lp_result.success /\ lp_committed = "true" /\ lp_pushed /\ lp_pushes = 1
    /\ (lp_committed # "none" /\ NothingToCommit) =>
         lp_ret = "false" /\ lp_pushes = 0 /\ lp_failed = "none"
    /\ lp_failed # "none" => lp_ret = "false"
    /\ lp_pushes > 0 => lp_committed = "true"

\* C23 witness: the commit was created and the push threw in the end
C23_Witness ==
  /\ prog = "log-pusher" /\ lp_pc = "done" /\ lp_failed = "push"
  /\ lp_committed = "true" /\ lp_pushes = 1 /\ lp_ret = "false"

\* C23 witness: nothing to commit, no push
C23_WitnessNothing ==
  /\ prog = "log-pusher" /\ lp_pc = "done" /\ lp_committed = "false"
  /\ lp_pushes = 0 /\ lp_ret = "false"

\* C23 witness: true after commit and push
C23_WitnessTrue ==
  /\ prog = "log-pusher" /\ lp_ret = "true" /\ lp_pushed

----------------------------------------------------------------------------
(* utils/log-cleanup: cleanupOldLogs                                        *)

D_full == <<"a","b","c","d","e","f","0","1","2">>
D_tiny == <<"a","b","c">>
D_other == <<"d","4","d","4","d","4","d">>
D_notes == <<"n","o","t","e","s">>

\* String.prototype.substring(0, 7)
substring7(s) == SubSeq(s, 1, IF Len(s) < 7 THEN Len(s) ELSE 7)

\* names an entry of the log directory can have: the full SHA, its first
\* seven and its first eight characters, a SHA shorter than seven
\* characters, another commit, and a name that is no commit
EntryNames ==
  {D_full, substring7(D_full), SubSeq(D_full, 1, 8), D_tiny, D_other, D_notes}

\* keeping the directory of the seven-character name only
Preserved_ShortOnly(dir, currentCommit) == dir = substring7(currentCommit)

\* if (dir === shortCommit || dir === currentCommit)
Preserved(dir, currentCommit) ==
  dir = substring7(currentCommit) \/ dir = currentCommit

\* entries.filter(e => e.isDirectory()).map(e => e.name)
directories(listing) == {n \in EntryNames : listing[n] = "dir"}

CL_Idle ==
  /\ cl_pc = "idle" /\ cl_commit = <<>> /\ cl_dryRun = FALSE
  /\ cl_before = [n \in EntryNames |-> "absent"]
  /\ cl_fs = [n \in EntryNames |-> "absent"]
  /\ cl_todo = {} /\ cl_failed = {}
  /\ cl_deletedCount = 0 /\ cl_preservedCount = 0

CL_Init ==
  /\ cl_pc = "start"
  /\ cl_commit \in {D_full, D_tiny}
  /\ cl_dryRun \in BOOLEAN
  /\ cl_before \in [EntryNames -> {"absent", "dir", "file"}]
  /\ cl_fs = cl_before
  /\ cl_todo = {} /\ cl_failed = {}
  /\ cl_deletedCount = 0 /\ cl_preservedCount = 0

\* existsSync, readdirSync, the filter; return if there is no directory
CL_List ==
  /\ prog = "log-cleanup" /\ cl_pc = "start"
  /\ cl_todo' = directories(cl_fs)
  /\ cl_pc' = IF directories(cl_fs) = {} THEN "done" ELSE "loop"
  /\ UNCHANGED <<prog, cpVars, rwVars, apiVars, vdVars, gitVars, upVars, fnVars,
                 appVars, prVars, e2eVars, bcVars, wcVars, lpVars, cl_commit, cl_dryRun, cl_before, cl_fs, cl_failed,
                 cl_deletedCount, cl_preservedCount>>

\* one round of for (const dir of directories)
CL_Visit ==
  /\ prog = "log-cleanup" /\ cl_pc = "loop" /\ cl_todo # {}
  /\ \E dir \in cl_todo :
       /\ cl_todo' = cl_todo \ {dir}
       /\ IF Preserved(dir, cl_commit)
          THEN /\ cl_preservedCount' = cl_preservedCount + 1
               /\ UNCHANGED <<cl_fs, cl_failed, cl_deletedCount>>
          ELSE IF cl_dryRun
          THEN /\ cl_deletedCount' = cl_deletedCount + 1
               /\ UNCHANGED <<cl_fs, cl_failed, cl_preservedCount>>
          ELSE \/ /\ cl_fs' = [cl_fs EXCEPT ![dir] = "absent"]
                  /\ cl_deletedCount' = cl_deletedCount + 1
                  /\ UNCHANGED <<cl_failed, cl_preservedCount>>
               \/ /\ cl_failed' = cl_failed \cup {dir}
                  /\ UNCHANGED <<cl_fs, cl_deletedCount, cl_preservedCount>>
  /\ UNCHANGED <<prog, cpVars, rwVars, apiVars, vdVars, gitVars, upVars, fnVars,
                 appVars, prVars, e2eVars, bcVars, wcVars, lpVars, cl_pc, cl_commit, cl_dryRun, cl_before>>

\* the loop is over: the closing log line
CL_Finish ==
  /\ prog = "log-cleanup" /\ cl_pc = "loop" /\ cl_todo = {}
  /\ cl_pc' = "done"
  /\ UNCHANGED <<prog, cpVars, rwVars, apiVars, vdVars, gitVars, upVars, fnVars,
                 appVars, prVars, e2eVars, bcVars, wcVars, lpVars, cl_commit, cl_dryRun, cl_before, cl_fs, cl_todo,
                 cl_failed, cl_deletedCount, cl_preservedCount>>

CL_Next == CL_List \/ CL_Visit \/ CL_Finish

\* the names the current commit's directory can have
CurrentNames == {substring7(cl_commit), cl_commit}

\* C24: cleanupOldLogs never deletes the subdirectory named after the
\* current commit (its first 7 characters or the full SHA); after a call
\* without dryRun in which no deletion fails no other subdirectory of the
\* log directory remains, and plain files directly in the log directory
\* are left untouched.
C24_KeepsCurrentCommit ==
  prog = "log-cleanup" =>
    /\ \A n \in CurrentNames \cap EntryNames :
         cl_before[n] = "dir" => cl_fs[n] = "dir"
    /\ \A n \in EntryNames : cl_before[n] = "file" <=> cl_fs[n] = "file"
    /\ (cl_pc = "done" /\ ~cl_dryRun /\ cl_failed = {}) =>
         directories(cl_fs) = directories(cl_before) \cap CurrentNames
    /\ cl_dryRun => cl_fs = cl_before

\* C24 witness: a finished call without dryRun and without a failed
\* deletion that met both names of the current commit, two other
\* directories and a plain file
C24_Witness ==
  /\ prog = "log-cleanup" /\ cl_pc = "done" /\ ~cl_dryRun /\ cl_failed = {}
  /\ cl_commit = D_full
  /\ directories(cl_before) = {D_full, substring7(D_full), SubSeq(D_full, 1, 8), D_other}
  /\ cl_before[D_notes] = "file"
  /\ cl_deletedCount = 2 /\ cl_preservedCount = 2

----------------------------------------------------------------------------
Programs == {"check-pipeline", "run-workflow", "check-pipeline-api",
             "verify-deployment", "git", "upload", "filename", "app",
             "auto-pr", "e2e-local", "branch-cleanup", "wait-commit",
             "log-pusher", "log-cleanup"}

InitFor(p) ==
  /\ prog = p
  /\ IF p = "check-pipeline" THEN CP_Init ELSE CP_Idle
  /\ IF p = "run-workflow" THEN RW_Init ELSE RW_Idle
  /\ IF p = "check-pipeline-api" THEN API_Init ELSE API_Idle
  /\ IF p = "verify-deployment" THEN VD_Init ELSE VD_Idle
  /\ IF p = "git" THEN GIT_Init ELSE GIT_Idle
  /\ IF p = "upload" THEN UP_Init ELSE UP_Idle
  /\ IF p = "filename" THEN FN_Init ELSE FN_Idle
  /\ IF p = "app" THEN APP_Init ELSE APP_Idle
  /\ IF p = "auto-pr" THEN PR_Init ELSE PR_Idle
  /\ IF p = "e2e-local" THEN E2E_Init ELSE E2E_Idle
  /\ IF p = "branch-cleanup" THEN BC_Init ELSE BC_Idle
  /\ IF p = "wait-commit" THEN WC_Init ELSE WC_Idle
  /\ IF p = "log-pusher" THEN LP_Init ELSE LP_Idle
  /\ IF p = "log-cleanup" THEN CL_Init ELSE CL_Idle

Init == \E p \in Programs : InitFor(p)

Next == CP_Next \/ RW_Next \/ API_Next \/ VD_Next \/ GIT_Next \/ UP_Next \/
        FN_Next \/ APP_Next \/ PR_Next \/ E2E_Next \/ BC_Next \/ WC_Next \/
        LP_Next \/ CL_Next

Spec == Init /\ [][Next]_vars

\* check-pipeline.ts alone
InitCP == InitFor("check-pipeline")
SpecCP == InitCP /\ [][CP_Next]_vars
\* every await of the checker completes: git pull returns, the sleep ends
FairSpecCP == SpecCP /\ WF_vars(CP_Next)

\* run-workflow.sh alone
InitRW == InitFor("run-workflow")
SpecRW == InitRW /\ [][RW_Next]_vars

\* check-pipeline-api.ts alone
InitAPI == InitFor("check-pipeline-api")
SpecAPI == InitAPI /\ [][API_Next]_vars

\* verify-deployment.ts alone
InitVD == InitFor("verify-deployment")
SpecVD == InitVD /\ [][VD_Next]_vars
\* every fetch and every sleep of the verifier completes
FairSpecVD == SpecVD /\ WF_vars(VD_Next)

\* GitClient.push and GitClient.fetch alone
InitGIT == InitFor("git")
SpecGIT == InitGIT /\ [][GIT_Next]_vars

\* UploadService.upload alone
InitUP == InitFor("upload")
SpecUP == InitUP /\ [][UP_Next]_vars

\* ValidationService.generateFilename alone
InitFN == InitFor("filename")
SpecFN == InitFN /\ [][FN_Next]_vars

\* main.ts alone
InitAPP == InitFor("app")
SpecAPP == InitAPP /\ [][APP_Next]_vars

\* auto-pr.ts alone
InitPR == InitFor("auto-pr")
SpecPR == InitPR /\ [][PR_Next]_vars

\* e2e-local.ts alone
InitE2E == InitFor("e2e-local")
SpecE2E == InitE2E /\ [][E2E_Next]_vars

\* the branch cleanup script alone
InitBC == InitFor("branch-cleanup")
SpecBC == InitBC /\ [][BC_Next]_vars

\* waitForCorrectCommit alone
InitWC == InitFor("wait-commit")
SpecWC == InitWC /\ [][WC_Next]_vars

\* LogPusher.pushLogs
InitLP == InitFor("log-pusher")
SpecLP == InitLP /\ [][LP_Next]_vars

\* cleanupOldLogs
InitCL == InitFor("log-cleanup")
SpecCL == InitCL /\ [][CL_Next]_vars

====
